---- MODULE Spec2Model ----
(***************************************************************************)
(* Model of mongodet: the schema transformer (getValidationData), the      *)
(* document validator (validateDocument), the type registry (types.js)     *)
(* and the document transcoder (conversion.js).                            *)
(*                                                                         *)
(* JavaScript values are modelled as follows.                              *)
(*  - a plain object is a function from its own keys (strings) to values;  *)
(*    a key that is absent is outside the DOMAIN.  Keys are enumerated in  *)
(*    name order (see NameOrder).   *)
(*  - a value whose dynamic type the code inspects is a one-field record   *)
(*    whose field names the type: [string |-> s], [Array |-> <<..>>],      *)
(*    [Object |-> o], [boolean |-> b], [undefined |-> TRUE].               *)
(*  - arrays are sequences; JS index i is TLA+ index i + 1.                *)
(***************************************************************************)
EXTENDS Integers, Sequences, FiniteSets, TLC

VARIABLES
    pc,               \* where the call in progress stands
    schema,           \* the schema argument
    data,             \* the document argument
    thrown,           \* the exception raised, or None
    validationData,   \* what getValidationData returned, or None
    trail,            \* what the transcoder calls returned, in order
    lookups,          \* the convertValue calls of the last transcoder call
    toDbFunctions,    \* types.js: toDbFunctions
    fromDbFunctions,  \* types.js: fromDbFunctions
    validator,        \* the validator argument of validateDocument
    invoked,          \* the documents the validator was invoked on, in order
    ret,              \* what validateDocument or a registry lookup returned, or None
    history,          \* the addType or new Collection calls made so far, in order
    collections,      \* Collection.collections: name -> index in instances
    instances,        \* the Collection objects constructed, in order
    connectionStatus, \* connexion.js: connectionStatus
    namespaces,       \* the collections that exist on the server
    binds,            \* the bindCollection calls started, in order
    waits,            \* the waitForInitializaton calls made, in order
    client,           \* connexion.js: client, an index in clients, 0 for null
    clients,          \* the MongoClient objects created, in order: their state
    calls,            \* the connect / disconnect calls made, in order
    emits             \* what connectionEmitter emitted, in order

vars == <<pc, schema, data, thrown, validationData, trail, lookups,
          toDbFunctions, fromDbFunctions, validator, invoked, ret, history,
          collections, instances, connectionStatus, namespaces, binds, waits,
          client, clients, calls, emits>>

connexionVars == <<client, clients, calls, emits>>
collectionVars == <<collections, instances, connectionStatus, namespaces, binds, waits,
                    connexionVars>>

schemaVars == <<data, trail, lookups, toDbFunctions, fromDbFunctions,
                validator, invoked, ret, history, collectionVars>>
convVars == <<validationData, validator, invoked, ret, history, collectionVars>>
validateVars == <<schema, validationData, trail, lookups, toDbFunctions, fromDbFunctions,
                  history, collectionVars>>
typesVars == <<schema, validationData, trail, lookups, validator, invoked, collectionVars>>
classVars == <<schema, data, validationData, trail, lookups, toDbFunctions,
               fromDbFunctions, validator, invoked, connexionVars>>

(***************************************************************************)
(* Bounds                                                                  *)
(***************************************************************************)
MaxLen == 2     \* longest list of names in a required / unmodifiable spec
MaxDepth == 1   \* nesting levels put around an object node
MaxDigits == 4  \* most hex digits of a numeric string
MaxBytes == 3   \* longest byte array of a stored number (besides 16)
MaxItems == 3   \* longest list in a document
MaxCalls == 4   \* transcoder calls in a row
MaxBatch == 3   \* most documents validated at once
MaxRegistrations == 2  \* addType calls made after the module was loaded
MaxConstructions == 2  \* new Collection calls
MaxBinds == 2          \* bindCollection calls started
MaxWaits == 2          \* waitForInitializaton calls
MaxClients == 3        \* MongoClient objects created, the one of line 9 included
MaxAsync == 4          \* connect and disconnect calls

(***************************************************************************)
(* JavaScript values                                                       *)
(***************************************************************************)
EmptyObj == <<>>
Undefined == [undefined |-> TRUE]
None == [none |-> TRUE]

Str(s) == [string |-> s]
Arr(l) == [Array |-> l]
Obj(o) == [Object |-> o]
JsFalse == [boolean |-> FALSE]
JsTrue == [boolean |-> TRUE]

Has(o, k) == k \in DOMAIN o
IsStr(v) == "string" \in DOMAIN v
IsArr(v) == "Array" \in DOMAIN v
IsObj(v) == "Object" \in DOMAIN v
IsUndefined(v) == "undefined" \in DOMAIN v
IsNone(v) == "none" \in DOMAIN v
IsFalse(v) == "boolean" \in DOMAIN v /\ v.boolean = FALSE

\* JS truthiness of a string, array or object value
Truthy(v) == IF IsStr(v) THEN v.string # "" ELSE TRUE

Range(s) == {s[i] : i \in 1..Len(s)}
Without(o, k) == [x \in DOMAIN o \ {k} |-> o[x]]

Return(v) == [return |-> v]
Throw(e) == [throw |-> e]
IsThrow(r) == "throw" \in DOMAIN r

\* no Collection was constructed, no connection was made
\* connexion.js lines 9-10 leave `new MongoClient()` in client; no call
\* was made
NoConnexion ==
    /\ clients = <<"new">>
    /\ client = 1
    /\ calls = <<>>
    /\ emits = <<>>

NoCollections ==
    /\ NoConnexion
    /\ collections = <<>>
    /\ instances = <<>>
    /\ connectionStatus = ""
    /\ namespaces = {}
    /\ binds = <<>>
    /\ waits = <<>>

\* Array.prototype.concat: an array argument is spliced, anything else appended
concat(arr, x) == IF IsArr(x) THEN arr \o x.Array ELSE Append(arr, x.string)

(***************************************************************************)
(* errors.js                                                               *)
(***************************************************************************)
MongolError(error) == [errorType |-> "MongolError", error |-> error]
TypeError == [errorType |-> "TypeError", error |-> "Cannot read property 'map' of undefined"]
AjvError == [errorType |-> "Error", error |-> "schema is invalid"]

(***************************************************************************)
(* Collection/validateDocument.js: getValidationData                       *)
(***************************************************************************)
\* for ... in: the order in which the names of an object are visited
NameOrder == <<"_id", "a", "b", "id", "l", "n">>

\* The identity of an object of the master schema is kept under the name
\* "#" of an object and in the field at of an array; an object or array
\* the code creates has none.  Strings, numbers and booleans have none.
ownKeys(o) == DOMAIN o \ {"#"}

\* the names of a schema node whose values are strings
StringKeys == {"$ref", "type", "mongoType", "encoding"}
\* the names whose values are maps from names to schema nodes
MapKeys == {"properties", "definitions"}
\* the names whose values are schema nodes
NodeKeys == {"additionalItems"}

RECURSIVE clone(_)
RECURSIVE cloneProperty(_, _)

\* ret[key] = schema[key], without the copy
cloneProperty_shared(obj, key) == obj[key]

\* clone(obj[key]), lines 7-41: a primitive is returned, an array or an
\* object is copied element by element into a new one
cloneProperty(obj, key) ==
    IF key \in StringKeys THEN obj[key]
    ELSE IF key \in MapKeys THEN [p \in ownKeys(obj[key]) |-> clone(obj[key][p])]
    ELSE IF key \in NodeKeys THEN clone(obj[key])
    ELSE IF IsArr(obj[key])
    THEN Arr([i \in 1..Len(obj[key].Array) |->
                IF key = "items" THEN clone(obj[key].Array[i]) ELSE obj[key].Array[i]])
    ELSE IF IsObj(obj[key]) THEN Obj(clone(obj[key].Object))
    ELSE obj[key]

\* lines 30-37: clone of an object
clone(obj) == [attr \in ownKeys(obj) |-> cloneProperty(obj, attr)]

\* { ...a, ...b }: a new object with the own properties of a, then of b
spread(a, b) == [k \in ownKeys(a) \cup ownKeys(b) |-> IF k \in DOMAIN b THEN b[k] ELSE a[k]]

\* the walk of the $ref path segments from the root (lines 107-113)
RECURSIVE walkRef(_, _)
walkRef(ref, segments) ==
    IF segments = <<>> THEN [found |-> TRUE, value |-> ref]
    ELSE IF Head(segments) \in DOMAIN ref
         THEN walkRef(ref[Head(segments)], Tail(segments))
         ELSE [found |-> FALSE]

\* lines 104-116: schema = { ...schema, ...ref }; delete schema.$ref
resolveRef(sch, refSchema) ==
    IF Has(sch, "$ref")
    THEN LET ref == walkRef(refSchema, sch["$ref"])
         IN  Without(spread(clone(sch), IF ref.found THEN ref.value ELSE EmptyObj),
                     "$ref")
    ELSE sch

\* required with the upsert branch of a map left out
required_noUpsert(sch, mode) ==
    IF Has(sch, "required") /\ Truthy(sch.required)
    THEN LET r == sch.required
         IN  IF IsArr(r) THEN Arr(r.Array)
             ELSE IF IsObj(r)
             THEN IF Has(r.Object, mode) /\ Truthy(r.Object[mode])
                  THEN Arr(concat(<<>>, r.Object[mode])) ELSE Arr(<<>>)
             ELSE Arr(<<r.string>>)
    ELSE Undefined

\* lines 120-134: the required list for the mode, or undefined
required(sch, mode) ==
    IF Has(sch, "required") /\ Truthy(sch.required)
    THEN LET r == sch.required
         IN  IF IsArr(r) THEN Arr(r.Array)
             ELSE IF IsObj(r)
             THEN LET r1 == IF Has(r.Object, "upsert") /\ Truthy(r.Object.upsert)
                            THEN concat(<<>>, r.Object.upsert) ELSE <<>>
                      r2 == IF Has(r.Object, mode) /\ Truthy(r.Object[mode])
                            THEN concat(r1, r.Object[mode]) ELSE r1
                  IN  Arr(r2)
             ELSE Arr(<<r.string>>)
    ELSE Undefined

\* lines 139-160: the unmodifiable list for the mode
unmodifiableProperties(sch, mode) ==
    LET u == sch.unmodifiableProperties
    IN  IF IsArr(u) THEN concat(<<>>, u)
        ELSE IF IsObj(u)
        THEN LET u1 == IF Has(u.Object, "upsert") /\ Truthy(u.Object.upsert)
                       THEN concat(<<>>, u.Object.upsert) ELSE <<>>
             IN  IF Has(u.Object, mode) /\ Truthy(u.Object[mode])
                 THEN concat(u1, u.Object[mode]) ELSE u1
        ELSE concat(<<>>, u)

\* line 138: if (schema.properties) { ... if (schema.unmodifiableProperties)
checksUnmodifiable(sch) ==
    /\ Has(sch, "properties")
    /\ Has(sch, "unmodifiableProperties")
    /\ Truthy(sch.unmodifiableProperties)

conflictMessage(r, path, mode) ==
    "Property \"" \o r \o "\" in \"" \o path
      \o "\", can not be declared as unmodifiable and required. Current mode: \""
      \o mode \o "\"."

policyMessage(path) ==
    "Error in \"" \o path
      \o "\": if the parameter \"unmodifiableProperties\" is set, the \"additionalProperties\" parameter must be set to false on the same level."

\* lines 137-169: the names of the properties that are kept
keptProperties(sch, mode) ==
    IF ~Has(sch, "properties") THEN {}
    ELSE IF checksUnmodifiable(sch)
         THEN ownKeys(sch.properties) \ Range(unmodifiableProperties(sch, mode))
         ELSE ownKeys(sch.properties)

\* lines 171-180: the checks of a node with properties and unmodifiableProperties
checkNode(sch, path, mode) ==
    IF ~checksUnmodifiable(sch) THEN None
    ELSE LET req == required(sch, mode)
             unmod == Range(unmodifiableProperties(sch, mode))
         IN  IF IsUndefined(req) THEN Throw(TypeError)
             ELSE IF \E i \in 1..Len(req.Array) : req.Array[i] \in unmod
             THEN LET i == CHOOSE j \in 1..Len(req.Array) :
                              /\ req.Array[j] \in unmod
                              /\ \A k \in 1..(j - 1) : req.Array[k] \notin unmod
                  IN  Throw(MongolError(conflictMessage(req.Array[i], path, mode)))
             ELSE IF ~(Has(sch, "additionalProperties") /\ IsFalse(sch.additionalProperties))
             THEN Throw(MongolError(policyMessage(path)))
             ELSE None

\* the first exception thrown by a sequence of results, or None
RECURSIVE firstThrow(_)
firstThrow(results) ==
    IF results = <<>> THEN None
    ELSE IF IsThrow(Head(results)) THEN Head(results)
    ELSE firstThrow(Tail(results))

\* lines 103-264
RECURSIVE updateSubSchema(_, _, _, _)
updateSubSchema(schema0, path, refSchema, mode) ==
    LET sch == resolveRef(schema0, refSchema)
        req == required(sch, mode)
        check == checkNode(sch, path, mode)
        properties == keptProperties(sch, mode)
        names == SelectSeq(NameOrder, LAMBDA p : p \in properties)
        props == [p \in properties |->
                    updateSubSchema(sch.properties[p], path \o ".properties." \o p,
                                    refSchema, mode)]
        tuple == Has(sch, "items") /\ IsArr(sch.items)
        items == IF ~Has(sch, "items") THEN <<>>
                 ELSE IF tuple
                 THEN [i \in 1..Len(sch.items.Array) |->
                         updateSubSchema(sch.items.Array[i],
                                         path \o ".items[" \o ToString(i - 1) \o "]",
                                         refSchema, mode)]
                 ELSE <<updateSubSchema(sch.items.Object, path \o ".items",
                                        refSchema, mode)>>
        \* the keys of a node are visited with "items" before "properties"
        sub == firstThrow(items \o [i \in 1..Len(names) |-> props[names[i]]])
        own == {k \in ownKeys(sch) :
                    /\ k \notin {"definitions", "unmodifiableProperties"}
                    /\ (k = "required" => ~IsUndefined(req))}
    IN  IF IsThrow(check) THEN check
        ELSE IF IsThrow(sub) THEN sub
        ELSE Return([k \in own |->
                CASE k = "properties" -> [p \in properties |-> props[p].return]
                  [] k = "items" ->
                        IF tuple
                        THEN Arr([i \in 1..Len(items) |-> items[i].return])
                        ELSE Obj(items[1].return)
                  [] k = "required" -> req
                  [] OTHER -> cloneProperty(sch, k)])

\* lines 102, 266-267
getSchema(sch, mode) == updateSubSchema(sch, "schema", sch, mode)

\* ajv.compile: the validator is bound to the schema it was compiled from
compile(sch) == [compiledFrom |-> sch]

\* lines 271-283: what is returned when Ajv accepts both derived schemas
validationDataOf(insertSchema, updateSchema) ==
    [insert |-> [schema |-> insertSchema, validator |-> compile(insertSchema)],
     update |-> [schema |-> updateSchema, validator |-> compile(updateSchema)]]

\* lines 101-284, for a schema whose derived schemas Ajv accepts
getValidationData(sch) ==
    IF IsThrow(getSchema(sch, "insert")) THEN getSchema(sch, "insert")
    ELSE IF IsThrow(getSchema(sch, "update")) THEN getSchema(sch, "update")
    ELSE Return(validationDataOf(getSchema(sch, "insert").return,
                                 getSchema(sch, "update").return))

(***************************************************************************)
(* types.js.  A string whose characters the code inspects is                *)
(* [chars |-> <<"0", "x", ...>>]; a number is [number |-> n]; the          *)
(* library objects are [Decimal128 |-> bytes] and [Int32 |-> n].           *)
(***************************************************************************)
Chars(cs) == [chars |-> cs]
Num(n) == [number |-> n]
JsNull == [null |-> TRUE]
NaN == -1       \* parseInt's "not a number" (the inputs have no sign)

IsChars(v) == "chars" \in DOMAIN v
IsNum(v) == "number" \in DOMAIN v
IsNullish(v) == "null" \in DOMAIN v \/ "undefined" \in DOMAIN v

Digits == <<"0", "1", "2", "3", "4", "5", "6", "7", "8", "9",
            "a", "b", "c", "d", "e", "f">>
UpperDigits == <<"0", "1", "2", "3", "4", "5", "6", "7", "8", "9",
                 "A", "B", "C", "D", "E", "F">>

\* the value of a digit character in the radix, or NaN
digitValue(c, radix) ==
    IF \E i \in 1..radix : Digits[i] = c \/ UpperDigits[i] = c
    THEN (CHOOSE i \in 1..radix : Digits[i] = c \/ UpperDigits[i] = c) - 1
    ELSE NaN

\* String.prototype.toLocaleLowerCase
toLocaleLowerCase(cs) ==
    [i \in 1..Len(cs) |->
        IF \E j \in 11..16 : UpperDigits[j] = cs[i]
        THEN Digits[CHOOSE j \in 11..16 : UpperDigits[j] = cs[i]]
        ELSE IF cs[i] = "X" THEN "x"
        ELSE cs[i]]

\* String.prototype.startsWith
startsWith(cs, prefix) ==
    Len(cs) >= Len(prefix) /\ SubSeq(cs, 1, Len(prefix)) = prefix

\* String.prototype.slice(from, to) with the negative offsets the code uses:
\* the characters from max(len + from, 0) up to len + to
slice(cs, from, to) ==
    LET len == Len(cs)
        lo == IF len + from < 0 THEN 0 ELSE len + from
        hi == len + to
    IN  SubSeq(cs, lo + 1, hi)

\* parseInt(cs, radix) of a string without sign: the longest prefix of
\* digits of the radix, NaN when there is none
RECURSIVE parseDigits(_, _, _)
parseDigits(cs, radix, acc) ==
    IF cs = <<>> \/ digitValue(Head(cs), radix) = NaN THEN acc
    ELSE parseDigits(Tail(cs), radix,
                     (IF acc = NaN THEN 0 ELSE acc) * radix + digitValue(Head(cs), radix))

parseInt(cs, radix) == parseDigits(cs, radix, NaN)

\* the store of a number into a Buffer element: modulo 256, NaN gives 0
toByte(n) == IF n = NaN THEN 0 ELSE n % 256

\* groupsToBuffer with the groups stored highest-order first
groupsToBuffer_bigEndian(str, radix, nb) ==
    LET n == (Len(str) + nb - 1) \div nb
    IN  [k \in 1..n |->
            toByte(parseInt(slice(str, -(nb * (n + 1 - k)), -(nb * (n - k))), radix))]

\* lines 83-89: the buffer of the digit groups, lowest-order group first
groupsToBuffer(str, radix, nb) ==
    [k \in 1..((Len(str) + nb - 1) \div nb) |->
        toByte(parseInt(slice(str, -(nb * k), -(nb * (k - 1))), radix))]

\* numericStringToBuffer with four bits per byte for a binary string
numericStringToBuffer_nibbles(str) ==
    IF startsWith(str, <<"0", "x">>)
    THEN Return(groupsToBuffer(SubSeq(str, 3, Len(str)), 16, 2))
    ELSE IF startsWith(str, <<"b">>)
    THEN Return(groupsToBuffer(SubSeq(str, 2, Len(str)), 2, 4))
    ELSE Throw(Chars(<<"Invalid value">>))

\* lines 69-90
numericStringToBuffer(str) ==
    IF startsWith(str, <<"0", "x">>)
    THEN Return(groupsToBuffer(SubSeq(str, 3, Len(str)), 16, 2))
    ELSE IF startsWith(str, <<"b">>)
    THEN Return(groupsToBuffer(SubSeq(str, 2, Len(str)), 2, 8))
    ELSE Throw(Chars(<<"Invalid value">>))

\* Buffer.alloc(16) then buf.writeBigInt64LE(BigInt(n)) for 0 <= n < 2^63
RECURSIVE byteAt(_, _)
byteAt(n, k) == IF k = 1 THEN n % 256 ELSE byteAt(n \div 256, k - 1)

writeBigInt64LE(n) == [k \in 1..16 |-> IF k <= 8 THEN byteAt(n, k) ELSE 0]

\* new Decimal128(buf), unless making buf threw
newDecimal128(buf) ==
    IF IsThrow(buf) THEN buf ELSE Return([Decimal128 |-> buf.return])

\* lines 132-150: int128, value to storage
int128ToDb(value) ==
    IF IsChars(value)
    THEN LET i128 == toLocaleLowerCase(value.chars)
         IN  IF startsWith(i128, <<"0", "x">>) \/ startsWith(i128, <<"b">>)
             THEN newDecimal128(numericStringToBuffer(value.chars))
             ELSE Return([Decimal128fromString |-> i128])
    ELSE IF IsNum(value)
    THEN Return([Decimal128 |-> writeBigInt64LE(value.number)])
    ELSE IF "Buffer" \in DOMAIN value
    THEN Return([Decimal128 |-> value.Buffer])
    ELSE Throw(Chars(<<"Unable to convert to 128bit">>))

\* byteToHex without the padStart
byteToHex_unpadded(b) ==
    IF b < 16 THEN <<Digits[b + 1]>> ELSE <<Digits[(b \div 16) + 1], Digits[(b % 16) + 1]>>

\* Number.prototype.toString(16).padStart(2, '00') of a byte
byteToHex(b) == <<Digits[(b \div 16) + 1], Digits[(b % 16) + 1]>>

RECURSIVE hexDown(_, _)
hexDown(bytes, i) ==
    IF i < 1 THEN <<>> ELSE byteToHex(bytes[i]) \o hexDown(bytes, i - 1)

\* lines 151-165: int128, storage to value
int128FromDb(value) ==
    IF "Decimal128" \notin DOMAIN value
    THEN Throw([errorType |-> "TypeError",
                error |-> "Cannot read property 'length' of undefined"])
    ELSE LET bytes == value.Decimal128
             nonZero == {i \in 1..Len(bytes) : bytes[i] # 0}
         IN  IF nonZero = {} THEN Return(Chars(<<"0", "x", "0", "0">>))
             ELSE Return(Chars(<<"0", "x">>
                    \o hexDown(bytes, CHOOSE i \in nonZero : \A j \in nonZero : j <= i)))

\* lines 102-106: int32
int32ToDb(value) ==
    Return([Int32 |-> IF IsNum(value) THEN value.number
                      ELSE IF startsWith(toLocaleLowerCase(value.chars), <<"0", "x">>)
                      THEN parseInt(SubSeq(value.chars, 3, Len(value.chars)), 16)
                      ELSE parseInt(value.chars, 10)])

int32FromDb(value) ==
    IF "Int32" \in DOMAIN value THEN Return(Num(value.Int32)) ELSE Return(Undefined)

\* the call of a registered conversion function
call(fn, value, encoding) ==
    CASE fn = "int128.toDb" -> int128ToDb(value)
      [] fn = "int128.fromDb" -> int128FromDb(value)
      [] fn = "int32.toDb" -> int32ToDb(value)
      [] fn = "int32.fromDb" -> int32FromDb(value)
      [] fn = "Object.prototype.toString" -> Return(Chars(<<"[object Object]">>))
      [] OTHER -> Return([library |-> fn, value |-> value, encoding |-> encoding])

\* lines 96-178: the registrations made when the module is loaded
BuiltinTypes == {"objectId", "int32", "int64", "int128", "binary", "date"}
builtinToDb == [t \in BuiltinTypes |-> t \o ".toDb"]
builtinFromDb == [t \in BuiltinTypes |-> t \o ".fromDb"]

\* lines 20-21: the registries are object literals, so besides their own
\* properties they have the function-valued properties of Object.prototype
ObjectPrototype ==
    {"constructor", "hasOwnProperty", "isPrototypeOf", "propertyIsEnumerable",
     "toLocaleString", "toString", "valueOf"}

\* functions[type]: the own property, else the inherited one, else undefined
property(functions, type) ==
    IF type \in DOMAIN functions THEN functions[type]
    ELSE IF type \in ObjectPrototype THEN "Object.prototype." \o type
    ELSE "undefined"

\* addType that leaves the fromDb function of an earlier registration
addType_keepsFromDb(toDb, fromDb, type, toDbFunction, fromDbFunction) ==
    [toDbFunctions |-> (type :> toDbFunction) @@ toDb,
     fromDbFunctions |-> IF type \in DOMAIN fromDb THEN fromDb
                         ELSE (type :> fromDbFunction) @@ fromDb]

\* lines 36-39: the registries after addType(type, toDbFunction, fromDbFunction)
addType(toDb, fromDb, type, toDbFunction, fromDbFunction) ==
    [toDbFunctions |-> (type :> toDbFunction) @@ toDb,
     fromDbFunctions |-> (type :> fromDbFunction) @@ fromDb]

\* lines 48-52; "undefined" stands for a property that is not a function
valueToDbFormat(toDb, value, type, encoding) ==
    IF property(toDb, type) # "undefined"
    THEN call(property(toDb, type), value, encoding)
    ELSE Return(value)

\* lines 61-65
dbFormatToValue(fromDb, value, type, encoding) ==
    IF property(fromDb, type) # "undefined"
    THEN call(property(fromDb, type), value, encoding)
    ELSE Return(value)

(***************************************************************************)
(* conversion.js.  A result is [return |-> v, lookups |-> l] or            *)
(* [throw |-> e, lookups |-> l]: l lists the calls of convertValue made.   *)
(***************************************************************************)
\* JS truthiness of a document or schema argument
falsy(v) ==
    \/ IsNullish(v)
    \/ IsNum(v) /\ v.number = 0
    \/ IsChars(v) /\ v.chars = <<>>
    \/ IsFalse(v)

\* value.constructor.name of a value that is not null or undefined
constructorName(v) ==
    IF IsObj(v) THEN "Object"
    ELSE IF IsArr(v) THEN "Array"
    ELSE IF IsChars(v) THEN "String"
    ELSE IF IsNum(v) THEN "Number"
    ELSE IF "boolean" \in DOMAIN v THEN "Boolean"
    ELSE "other"

NullTypeError(name) ==
    [errorType |-> "TypeError",
     error |-> "Cannot read property '" \o name \o "' of null"]
OnlyObjectsAndArrays ==
    [errorType |-> "Error",
     error |-> "This function manages directly only objects and arrays"]

\* lines 7-17: schema = refSchema, the node the $ref path leads to
refSchemaOf(sch, originalSchema) ==
    IF Has(sch, "$ref")
    THEN LET ref == walkRef(originalSchema, sch["$ref"])
         IN  IF ref.found THEN ref.value ELSE Undefined
    ELSE sch

\* schema && schema.properties && schema.properties[v]
hasProperty(sch, v) ==
    ~IsNullish(sch) /\ Has(sch, "properties") /\ Has(sch.properties, v)

\* schemaI with the tuple bound taken one short (i < length - 1)
schemaI_offByOne(sch, i) ==
    IF ~IsNullish(sch) /\ Has(sch, "items")
    THEN IF IsObj(sch.items) THEN sch.items.Object
         ELSE IF i < Len(sch.items.Array) - 1 THEN sch.items.Array[i + 1]
         ELSE IF Has(sch, "additionalItems") THEN sch.additionalItems
         ELSE Undefined
    ELSE Undefined

\* lines 61-69: the schema of the element at JS index i
schemaI(sch, i) ==
    IF ~IsNullish(sch) /\ Has(sch, "items")
    THEN IF IsObj(sch.items) THEN sch.items.Object
         ELSE IF i < Len(sch.items.Array) THEN sch.items.Array[i + 1]
         ELSE IF Has(sch, "additionalItems") THEN sch.additionalItems
         ELSE Undefined
    ELSE Undefined

keyword(sch, k) == IF Has(sch, k) THEN sch[k] ELSE "undefined"

\* lines 37-50 and 79-82: the conversion of a leaf; sch is the schema of
\* the leaf, or null / undefined when there is none.  convertValue is
\* [name |-> the function passed, functions |-> the registry it reads]
convertLeaf(sch, value, convertValue) ==
    LET encoding == IF IsNullish(sch) THEN "" ELSE keyword(sch, "encoding")
        mongoType == IF IsNullish(sch) THEN "" ELSE keyword(sch, "mongoType")
        lookup == [type |-> mongoType, encoding |-> encoding, value |-> value]
        r == IF convertValue.name = "valueToDbFormat"
             THEN valueToDbFormat(convertValue.functions, value, mongoType, encoding)
             ELSE dbFormatToValue(convertValue.functions, value, mongoType, encoding)
    IN  r @@ [lookups |-> <<lookup>>]

RECURSIVE convertElement(_, _, _, _)
RECURSIVE convertEach(_, _, _, _, _, _)
RECURSIVE convertTopLevel(_, _, _, _, _)

\* convertMember with the $ref of a leaf's schema node resolved
convertMember_resolvesLeaf(sch, doc, v, originalSchema, convertValue) ==
    LET value == IF IsObj(doc) THEN doc.Object[v] ELSE doc.Array[v]
        schemaV == IF IsObj(doc)
                   THEN (IF hasProperty(sch, v) THEN sch.properties[v] ELSE JsNull)
                   ELSE schemaI(sch, v - 1)
    IN  IF IsNullish(value)
        THEN [throw |-> NullTypeError("constructor"), lookups |-> <<>>]
        ELSE IF constructorName(value) \in {"Object", "Array"}
        THEN convertElement(schemaV, value, originalSchema, convertValue)
        ELSE convertLeaf(IF IsNullish(schemaV) THEN schemaV
                         ELSE refSchemaOf(schemaV, originalSchema),
                         value, convertValue)

\* lines 25-52 and 61-84: the conversion of data[v], where v is a name of
\* an object or an index (from 1) of an array
convertMember(sch, doc, v, originalSchema, convertValue) ==
    LET value == IF IsObj(doc) THEN doc.Object[v] ELSE doc.Array[v]
        schemaV == IF IsObj(doc)
                   THEN (IF hasProperty(sch, v) THEN sch.properties[v] ELSE JsNull)
                   ELSE schemaI(sch, v - 1)
    IN  IF IsNullish(value)
        THEN [throw |-> NullTypeError("constructor"), lookups |-> <<>>]
        ELSE IF constructorName(value) \in {"Object", "Array"}
        THEN convertElement(schemaV, value, originalSchema, convertValue)
        ELSE convertLeaf(schemaV, value, convertValue)

\* assignMember that catches the exception and returns what was converted
\* up to then
assignMember_swallows(sch, doc, keys, originalSchema, convertValue, acc, r) ==
    IF IsThrow(r) THEN [return |-> acc.return, lookups |-> acc.lookups \o r.lookups]
    ELSE convertEach(sch, doc, Tail(keys), originalSchema, convertValue,
            [return |-> acc.return @@ (Head(keys) :> r.return),
             lookups |-> acc.lookups \o r.lookups])

\* lines 34, 50, 76, 82: ret[v] = r, and on with the loop; an exception r
\* ends it
assignMember(sch, doc, keys, originalSchema, convertValue, acc, r) ==
    IF IsThrow(r) THEN [throw |-> r.throw, lookups |-> acc.lookups \o r.lookups]
    ELSE convertEach(sch, doc, Tail(keys), originalSchema, convertValue,
            [return |-> acc.return @@ (Head(keys) :> r.return),
             lookups |-> acc.lookups \o r.lookups])

\* lines 21-54 and 60-85: the loop over the own keys of an object (keys are
\* names) or over the indexes of an array (keys are 1..length); acc holds
\* ret and the lookups so far
convertEach(sch, doc, keys, originalSchema, convertValue, acc) ==
    IF keys = <<>> THEN acc
    ELSE assignMember(sch, doc, keys, originalSchema, convertValue, acc,
            convertMember(sch, doc, Head(keys), originalSchema, convertValue))

\* lines 55 and 86: return ret, an object or an array
returnObject(r) ==
    IF IsThrow(r) THEN r ELSE [return |-> Obj(r.return), lookups |-> r.lookups]

returnArray(r) ==
    IF IsThrow(r) THEN r ELSE [return |-> Arr(r.return), lookups |-> r.lookups]

\* lines 6-92
convertElement(schema0, doc, originalSchema, convertValue) ==
    IF IsNullish(schema0)
    THEN [throw |-> NullTypeError("$ref"), lookups |-> <<>>]
    ELSE IF IsNullish(doc)
    THEN [throw |-> NullTypeError("constructor"), lookups |-> <<>>]
    ELSE IF IsObj(doc)
    THEN returnObject(convertEach(refSchemaOf(schema0, originalSchema), doc,
                        SelectSeq(NameOrder, LAMBDA v : v \in DOMAIN doc.Object),
                        originalSchema, convertValue,
                        [return |-> EmptyObj, lookups |-> <<>>]))
    ELSE IF IsArr(doc)
    THEN returnArray(convertEach(refSchemaOf(schema0, originalSchema), doc,
                        [i \in 1..Len(doc.Array) |-> i],
                        originalSchema, convertValue,
                        [return |-> <<>>, lookups |-> <<>>]))
    ELSE [throw |-> OnlyObjectsAndArrays, lookups |-> <<>>]

\* line 105: ret.push(r), and on with the loop; an exception r ends it
pushElement(sch, elements, i, convertValue, acc, r) ==
    IF IsThrow(r) THEN [throw |-> r.throw, lookups |-> acc.lookups \o r.lookups]
    ELSE convertTopLevel(sch, elements, i + 1, convertValue,
            [return |-> Append(acc.return, r.return),
             lookups |-> acc.lookups \o r.lookups])

\* lines 102-106: the elements of a top-level array, each against the
\* whole schema
convertTopLevel(sch, elements, i, convertValue, acc) ==
    IF i > Len(elements) THEN [return |-> Arr(acc.return), lookups |-> acc.lookups]
    ELSE pushElement(sch, elements, i, convertValue, acc,
            convertElement(sch, elements[i], sch, convertValue))

\* convertDocument without the early return on an absent schema
convertDocument_unguarded(doc, sch, convertValue) ==
    IF falsy(doc) THEN [return |-> doc, lookups |-> <<>>]
    ELSE IF IsArr(doc)
    THEN convertTopLevel(sch, doc.Array, 1, convertValue,
                         [return |-> <<>>, lookups |-> <<>>])
    ELSE convertElement(sch, doc, sch, convertValue)

\* lines 5, 94-110
convertDocument(doc, sch, convertValue) ==
    IF falsy(sch) THEN [return |-> doc, lookups |-> <<>>]
    ELSE IF falsy(doc) THEN [return |-> doc, lookups |-> <<>>]
    ELSE IF IsArr(doc)
    THEN convertTopLevel(sch, doc.Array, 1, convertValue,
                         [return |-> <<>>, lookups |-> <<>>])
    ELSE convertElement(sch, doc, sch, convertValue)

\* lines 119-121 and 130-132
documentToDbFormat(doc, sch, toDb) ==
    convertDocument(doc, sch, [name |-> "valueToDbFormat", functions |-> toDb])

dbFormatToDocument(doc, sch, fromDb) ==
    convertDocument(doc, sch, [name |-> "dbFormatToValue", functions |-> fromDb])

(***************************************************************************)
(* The master schemas getValidationData is applied to                      *)
(***************************************************************************)
PropertyNames == {"_id", "a"}
ModeKeys == {"upsert", "insert", "update"}
Modes == {"insert", "update"}

RECURSIVE SeqsUpTo(_, _)
SeqsUpTo(S, n) ==
    IF n = 0 THEN {<<>>}
    ELSE LET shorter == SeqsUpTo(S, n - 1)
         IN  shorter \cup {Append(s, x) : s \in shorter, x \in S}

OptKey(k, Vals) == {EmptyObj} \cup {k :> v : v \in Vals}

NameSpecs == {Str(n) : n \in PropertyNames}
ListSpecs == {Arr(l) : l \in SeqsUpTo(PropertyNames, MaxLen)}
BranchSpecs == NameSpecs \cup {Arr(<<n>>) : n \in PropertyNames}
MapSpecs == {Obj(m) : m \in UNION {[K -> BranchSpecs] : K \in SUBSET ModeKeys}}
FullSpecs == NameSpecs \cup ListSpecs \cup MapSpecs
CoreSpecs == {Str("_id"), Arr(<<>>), Arr(<<"_id", "a">>), Obj(EmptyObj),
              Obj([upsert |-> Str("_id")]), Obj([insert |-> Arr(<<"a">>)]),
              Obj([update |-> Str("_id")]),
              Obj([upsert |-> Arr(<<"a">>), update |-> Str("_id")])}

PropertyMaps == {[_id |-> EmptyObj, a |-> [type |-> "string"]]}
AdditionalValues == {JsFalse, JsTrue, Obj(EmptyObj)}

NodesOf(Req, Unmod) ==
    {p @@ r @@ u @@ ap :
        p \in OptKey("properties", PropertyMaps),
        r \in OptKey("required", Req),
        u \in OptKey("unmodifiableProperties", Unmod),
        ap \in OptKey("additionalProperties", AdditionalValues)}

CoreNodes == NodesOf(CoreSpecs, CoreSpecs)
ObjectNodes == NodesOf(FullSpecs, CoreSpecs) \cup NodesOf(CoreSpecs, FullSpecs)

RefD == <<"definitions", "d">>
RefMissing == <<"definitions", "missing">>

\* one more level of structure around a node
Nest(N) ==
    {[properties |-> [a |-> n]] : n \in N}
    \cup {[properties |-> [_id |-> EmptyObj, a |-> n],
           unmodifiableProperties |-> u, required |-> Arr(<<>>),
           additionalProperties |-> JsFalse] :
            n \in N, u \in {Str("a"), Obj([update |-> Str("a")])}}
    \cup {[items |-> Obj(n)] : n \in N}
    \cup {[items |-> Arr(<<EmptyObj, n>>)] : n \in N}
    \cup {[properties |-> [_id |-> n, a |-> m]] : n \in N, m \in {[items |-> Obj(
            [properties |-> [a |-> EmptyObj], unmodifiableProperties |-> Str("a")])]}}

\* the nodes that more than one level is put around
DeepNodes ==
    NodesOf({Str("_id"), Obj([update |-> Str("_id")])},
            {Str("_id"), Obj([upsert |-> Arr(<<"a">>), update |-> Str("_id")])})

RECURSIVE Wrapped(_, _)
Wrapped(N, k) == IF k = 0 THEN N ELSE Nest(Wrapped(N, k - 1))

Nested(k) == IF k <= 1 THEN Wrapped(CoreNodes, k) ELSE Wrapped(DeepNodes, k)

\* a reference to a definition, at the root or at a property, with or
\* without sibling keys
Refer(N) ==
    {[definitions |-> [d |-> n]] @@ ("$ref" :> RefD) : n \in N}
    \cup {[properties |-> [a |-> ("$ref" :> RefD)], definitions |-> [d |-> n]] : n \in N}
    \cup {[properties |-> [a |-> ("$ref" :> RefD) @@ [required |-> Arr(<<"a">>)]],
           definitions |-> [d |-> n]] : n \in N}
    \cup {n @@ ("$ref" :> RefMissing) : n \in N}

\* a tuple schema whose additionalItems is an object node; the node is
\* valid JSON Schema apart from unmodifiableProperties (required is a list)
TupleSchemas ==
    {[items |-> Arr(<<EmptyObj>>),
      additionalItems |-> [properties |-> p, required |-> r,
                           unmodifiableProperties |-> u,
                           additionalProperties |-> JsFalse]] :
        p \in PropertyMaps, r \in {Arr(<<>>), Arr(<<"a">>)}, u \in CoreSpecs}

Schemas ==
    ObjectNodes
    \cup TupleSchemas
    \cup UNION {Nested(k) : k \in 1..MaxDepth}
    \cup Refer(CoreNodes)
    \cup UNION {Refer(Wrapped(DeepNodes, k)) : k \in 1..(MaxDepth - 1)}

\* the master schema with the identity of each of its objects and arrays:
\* the path that leads to it
RECURSIVE identified(_, _)
RECURSIVE identifiedProperty(_, _, _)
identifiedProperty(obj, key, at) ==
    IF key \in StringKeys THEN obj[key]
    ELSE IF key \in MapKeys
    THEN ("#" :> at) @@ [p \in DOMAIN obj[key] |-> identified(obj[key][p], at \o "." \o p)]
    ELSE IF key \in NodeKeys THEN identified(obj[key], at)
    ELSE IF IsArr(obj[key])
    THEN [Array |-> [i \in 1..Len(obj[key].Array) |->
                        IF key = "items"
                        THEN identified(obj[key].Array[i], at \o "." \o ToString(i - 1))
                        ELSE obj[key].Array[i]],
          at |-> at]
    ELSE IF IsObj(obj[key]) THEN Obj(identified(obj[key].Object, at))
    ELSE obj[key]

identified(obj, at) ==
    ("#" :> at) @@ [k \in DOMAIN obj |-> identifiedProperty(obj, k, at \o "." \o k)]

\* master schemas with references, with objects and arrays under names
\* that are copied as they are, with tuples and with nesting
MasterSchemas ==
    {identified(sch, "schema") :
        sch \in Refer(CoreNodes) \cup TupleSchemas \cup CoreNodes \cup Wrapped(DeepNodes, 1)}

(***************************************************************************)
(* getValidationData (lines 101-284)                                       *)
(***************************************************************************)
InitSchema ==
    /\ pc = "start"
    /\ schema \in Schemas
    /\ validationData = None
    /\ thrown = None
    /\ data = None
    /\ trail = <<>>
    /\ lookups = <<>>
    /\ toDbFunctions = builtinToDb
    /\ fromDbFunctions = builtinFromDb
    /\ validator = None
    /\ invoked = <<>>
    /\ ret = None
    /\ history = <<>>
    /\ NoCollections

\* insert is derived first, then update; then both are compiled.  Ajv is
\* an external library: whether it accepts a derived schema is its choice.
GetValidationData ==
    /\ pc = "start"
    /\ pc' = "done"
    /\ LET insertSchema == getSchema(schema, "insert")
           updateSchema == getSchema(schema, "update")
       IN  IF IsThrow(insertSchema)
           THEN thrown' = insertSchema.throw /\ UNCHANGED validationData
           ELSE IF IsThrow(updateSchema)
           THEN thrown' = updateSchema.throw /\ UNCHANGED validationData
           ELSE \E rejected \in BOOLEAN :
                  IF ~rejected
                  THEN /\ validationData' =
                            validationDataOf(insertSchema.return, updateSchema.return)
                       /\ UNCHANGED thrown
                  ELSE thrown' = AjvError /\ UNCHANGED validationData
    /\ UNCHANGED schema
    /\ UNCHANGED schemaVars

NextSchema == GetValidationData

SpecSchema == InitSchema /\ [][NextSchema]_vars

\* getValidationData on a master schema whose objects have an identity
InitMaster ==
    /\ pc = "start"
    /\ schema \in MasterSchemas
    /\ validationData = None
    /\ thrown = None
    /\ data = None
    /\ trail = <<>>
    /\ lookups = <<>>
    /\ toDbFunctions = builtinToDb
    /\ fromDbFunctions = builtinFromDb
    /\ validator = None
    /\ invoked = <<>>
    /\ ret = None
    /\ history = <<>>
    /\ NoCollections

SpecMaster == InitMaster /\ [][NextSchema]_vars

(***************************************************************************)
(* The documents and schemas the transcoder is applied to                  *)
(***************************************************************************)
HexChars == {"0", "1", "a", "F"}
ByteValues == {0, 1, 10, 255}

HexStrings == {<<"0", "x">> \o s : s \in SeqsUpTo(HexChars, MaxDigits)}
BinStrings == {<<"b">> \o s : s \in SeqsUpTo({"0", "1"}, 2 * MaxDigits + 1)}
ShortStrings == {s \in HexStrings \cup BinStrings : Len(s) <= 4}

Int128 == [mongoType |-> "int128"]
Int32 == [mongoType |-> "int32"]
IdSchema == [properties |-> [id |-> Int128]]

\* documents whose typed leaves are all int128 numeric strings
RoundTripInputs ==
    {[data |-> Obj([id |-> Chars(s)]), schema |-> IdSchema] :
        s \in HexStrings \cup BinStrings}
    \cup {[data |-> Obj([n |-> Obj([id |-> Chars(s)]), a |-> Num(1)]),
           schema |-> sc] :
            s \in ShortStrings,
            sc \in {[properties |-> [n |-> IdSchema]],
                    [properties |-> [n |-> ("$ref" :> RefD)],
                     definitions |-> [d |-> IdSchema]]}}
    \cup {[data |-> Obj([l |-> Arr(<<Chars(s), Chars(t)>>)]),
           schema |-> [properties |-> [l |-> [items |-> Obj(Int128)]]]] :
            s, t \in ShortStrings}

\* database results: the byte arrays of stored 128-bit numbers
ByteArrays ==
    SeqsUpTo(ByteValues, MaxBytes)
    \cup {[i \in 1..16 |-> IF i = k THEN b ELSE 0] : k \in 1..16, b \in {0, 171}}

StoredInputs ==
    {[data |-> Obj([id |-> [Decimal128 |-> bytes]]), schema |-> IdSchema] :
        bytes \in ByteArrays}

\* lists against a single item schema, or a tuple with additionalItems
ItemSchemas == {Int128, Int32, EmptyObj, IdSchema}
ListSchemas ==
    {[items |-> Obj(i)] : i \in ItemSchemas}
    \cup {[items |-> Arr(t)] @@ a :
            t \in SeqsUpTo({Int128, Int32, IdSchema}, 2),
            a \in OptKey("additionalItems", ItemSchemas)}
Elements == {Num(5), Chars(<<"0", "x", "0", "a">>), Obj([id |-> Num(1)])}

ListInputs ==
    {[data |-> Obj([l |-> Arr(l)]), schema |-> [properties |-> [l |-> ls]]] :
        l \in SeqsUpTo(Elements, MaxItems), ls \in ListSchemas}

SampleDocuments ==
    {Obj([id |-> Chars(<<"0", "x", "1", "a">>)]),
     Obj([n |-> Obj([id |-> Num(1)]), l |-> Arr(<<Num(5)>>)]),
     Obj([id |-> [Decimal128 |-> <<26>>]]),
     Arr(<<Obj([id |-> Num(1)]), Obj([id |-> Num(5)])>>),
     Obj([id |-> JsNull]),
     Obj([l |-> Arr(<<Num(5), Undefined>>)]),
     Obj(EmptyObj)}
SampleSchemas ==
    {IdSchema, [properties |-> [n |-> IdSchema, l |-> [items |-> Obj(Int32)]]]}

\* an absent schema, or the null / undefined result of a find
AbsentInputs ==
    {[data |-> d, schema |-> sc] :
        d \in SampleDocuments \cup {JsNull, Undefined}, sc \in {JsNull, Undefined}}
    \cup {[data |-> d, schema |-> sc] : d \in {JsNull, Undefined}, sc \in SampleSchemas}

OtherInputs ==
    {[data |-> d, schema |-> sc] : d \in SampleDocuments, sc \in SampleSchemas}

\* top-level documents that are neither objects nor arrays, and top-level
\* lists with such an element
Scalars == {Num(5), Num(0), Chars(<<"a">>), Chars(<<>>), JsTrue, JsFalse}
ScalarInputs ==
    {[data |-> d, schema |-> sc] :
        d \in Scalars \cup {Arr(<<Obj([id |-> Num(1)]), x>>) : x \in Scalars},
        sc \in SampleSchemas}

\* documents with a leaf that its converter rejects after another leaf
\* was converted: "0X.." in the value form, a number in the storage form
PairSchema == [properties |-> [a |-> Int128, id |-> Int128]]
RejectedValues ==
    {Obj([a |-> Chars(<<"0", "x", "1", "a">>), id |-> Chars(<<"0", "X", "1", "a">>)]),
     Obj([a |-> Chars(<<"0", "x", "1", "a">>), n |-> Obj([id |-> JsTrue])]),
     Arr(<<Obj([a |-> Num(5)]), Obj([a |-> JsTrue])>>)}
RejectedStored ==
    {Obj([a |-> [Decimal128 |-> <<26>>], id |-> Num(5)]),
     Arr(<<Obj([a |-> [Decimal128 |-> <<26>>]]), Obj([a |-> Num(5)])>>)}
RejectedSchemas == {PairSchema, [properties |-> [a |-> Int128, n |-> IdSchema]]}

\* schemas with $ref: on a leaf and on the items of a list, where the node
\* has no other key, and on a map next to properties of the node's own
RefLeafSchema ==
    [definitions |-> [d |-> Int128],
     properties |-> [id |-> ("$ref" :> RefD), l |-> [items |-> Obj("$ref" :> RefD)]]]
RefSiblingSchema ==
    [definitions |-> [d |-> [type |-> "object"]],
     properties |-> [n |-> ("$ref" :> RefD @@ "properties" :> [id |-> Int128])]]
RefInputs ==
    {[data |-> d, schema |-> sc, form |-> "value"] :
        d \in {Obj([id |-> Chars(s)]) : s \in ShortStrings}
               \cup {Obj([l |-> Arr(<<Chars(<<"0", "x", "1", "a">>)>>)]),
                     Obj([n |-> Obj([id |-> Chars(<<"0", "x", "1", "a">>)])])},
        sc \in {RefLeafSchema, RefSiblingSchema}}
    \cup {[data |-> Obj([id |-> [Decimal128 |-> <<26>>]]), schema |-> RefLeafSchema,
           form |-> "storage"]}

(***************************************************************************)
(* documentToDbFormat / dbFormatToDocument.  pc tells the form of the      *)
(* document at hand: "value" (application data) or "storage" (a database   *)
(* result).                                                                *)
(***************************************************************************)
InitConv ==
    /\ \/ \E inp \in RoundTripInputs \cup ListInputs \cup OtherInputs :
             data = inp.data /\ schema = inp.schema /\ pc = "value"
       \/ \E d \in RejectedValues, sc \in RejectedSchemas :
             data = d /\ schema = sc /\ pc = "value"
       \/ \E d \in RejectedStored, sc \in RejectedSchemas :
             data = d /\ schema = sc /\ pc = "storage"
       \/ \E inp \in ScalarInputs, form \in {"value", "storage"} :
             data = inp.data /\ schema = inp.schema /\ pc = form
       \/ \E inp \in StoredInputs :
             data = inp.data /\ schema = inp.schema /\ pc = "storage"
       \/ \E inp \in AbsentInputs, form \in {"value", "storage"} :
             data = inp.data /\ schema = inp.schema /\ pc = form
       \/ \E inp \in RefInputs :
             data = inp.data /\ schema = inp.schema /\ pc = inp.form
    /\ thrown = None
    /\ trail = <<>>
    /\ lookups = <<>>
    /\ toDbFunctions = builtinToDb
    /\ fromDbFunctions = builtinFromDb
    /\ validationData = None
    /\ validator = None
    /\ invoked = <<>>
    /\ ret = None
    /\ history = <<>>
    /\ NoCollections

\* the document the next call is given
current == IF trail = <<>> THEN data ELSE trail[Len(trail)]

Transcode(r, next) ==
    /\ lookups' = r.lookups
    /\ IF IsThrow(r)
       THEN thrown' = r.throw /\ pc' = "done" /\ UNCHANGED trail
       ELSE trail' = Append(trail, r.return) /\ pc' = next /\ UNCHANGED thrown
    /\ UNCHANGED <<data, schema, toDbFunctions, fromDbFunctions>>
    /\ UNCHANGED convVars

DocumentToDbFormat ==
    /\ pc = "value"
    /\ Len(trail) < MaxCalls
    /\ Transcode(documentToDbFormat(current, schema, toDbFunctions), "storage")

DbFormatToDocument ==
    /\ pc = "storage"
    /\ Len(trail) < MaxCalls
    /\ Transcode(dbFormatToDocument(current, schema, fromDbFunctions), "value")

NextConv == DocumentToDbFormat \/ DbFormatToDocument

SpecConv == InitConv /\ [][NextConv]_vars

(***************************************************************************)
(* Collection/validateDocument.js: validateDocument.  A compiled validator *)
(* is [accepts |-> the documents it accepts]; validator.errors after a     *)
(* rejected document is errorsOf that document.                            *)
(***************************************************************************)
errorsOf(doc) == <<[keyword |-> "schema", data |-> doc]>>

\* validateEach that goes on after a failure and reports the last one
RECURSIVE validateEach_keepsGoing(_, _, _, _)
validateEach_keepsGoing(docs, v, i, called) ==
    IF i >= Len(docs) THEN [return |-> Arr(<<>>), invoked |-> called]
    ELSE IF IsUndefined(v) THEN validateEach_keepsGoing(docs, v, i + 1, called)
    ELSE LET rest == validateEach_keepsGoing(docs, v, i + 1, Append(called, docs[i + 1]))
         IN  IF docs[i + 1] \in v.accepts \/ IsThrow(rest) THEN rest
             ELSE [throw |-> [errorType |-> "MongolError", error |-> errorsOf(docs[i + 1]),
                              document |-> docs[i + 1], index |-> i],
                   invoked |-> rest.invoked]

\* lines 53-61: the loop over the documents of a batch, from JS index i
RECURSIVE validateEach(_, _, _, _)
validateEach(docs, v, i, called) ==
    IF i >= Len(docs) THEN [return |-> Arr(<<>>), invoked |-> called]
    ELSE IF IsUndefined(v) THEN validateEach(docs, v, i + 1, called)
    ELSE IF docs[i + 1] \notin v.accepts
    THEN [throw |-> [errorType |-> "MongolError", error |-> errorsOf(docs[i + 1]),
                     document |-> docs[i + 1], index |-> i],
          invoked |-> Append(called, docs[i + 1])]
    ELSE validateEach(docs, v, i + 1, Append(called, docs[i + 1]))

\* lines 50-71
validateDocument(doc, v) ==
    IF IsNullish(doc)
    THEN [throw |-> NullTypeError("constructor"), invoked |-> <<>>]
    ELSE IF IsArr(doc) THEN validateEach(doc.Array, v, 0, <<>>)
    ELSE IF IsUndefined(v) THEN [return |-> Undefined, invoked |-> <<>>]
    ELSE IF doc \notin v.accepts
    THEN [throw |-> [errorType |-> "MongolError", error |-> errorsOf(doc),
                     document |-> doc],
          invoked |-> <<doc>>]
    ELSE [return |-> Undefined, invoked |-> <<doc>>]

Documents == {Obj([id |-> Num(1)]), Obj([id |-> Num(2)]), Obj(EmptyObj)}
Validators == {[accepts |-> A] : A \in SUBSET Documents}

InitValidate ==
    /\ pc = "start"
    /\ data \in Documents \cup {JsNull, Undefined}
                 \cup {Arr(l) : l \in SeqsUpTo(Documents, MaxBatch)}
    /\ validator \in Validators \cup {Undefined}
    /\ invoked = <<>>
    /\ ret = None
    /\ history = <<>>
    /\ NoCollections
    /\ thrown = None
    /\ schema = None
    /\ validationData = None
    /\ trail = <<>>
    /\ lookups = <<>>
    /\ toDbFunctions = builtinToDb
    /\ fromDbFunctions = builtinFromDb

ValidateDocument ==
    /\ pc = "start"
    /\ pc' = "done"
    /\ LET r == validateDocument(data, validator)
       IN  /\ invoked' = r.invoked
           /\ IF IsThrow(r)
              THEN thrown' = r.throw /\ UNCHANGED ret
              ELSE ret' = r.return /\ UNCHANGED thrown
    /\ UNCHANGED <<data, validator>>
    /\ UNCHANGED validateVars

NextValidate == ValidateDocument

SpecValidate == InitValidate /\ [][NextValidate]_vars

(***************************************************************************)
(* types.js: addType, valueToDbFormat and dbFormatToValue called in any    *)
(* order.  data is the last call, ret what it returned.                    *)
(***************************************************************************)
TypeNames == {"int128", "custom", "toString"}
ToDbArguments == {"f.toDb", "g.toDb", "undefined"}
FromDbArguments == {"f.fromDb", "g.fromDb"}
LookupTypes == TypeNames \cup {"int32", "", "undefined", "never"}
LookupValues == {Num(5), Chars(<<"0", "x", "1", "a">>)}

InitTypes ==
    /\ pc = "types"
    /\ toDbFunctions = builtinToDb
    /\ fromDbFunctions = builtinFromDb
    /\ history = <<>>
    /\ NoCollections
    /\ data = None
    /\ ret = None
    /\ thrown = None
    /\ schema = None
    /\ validationData = None
    /\ trail = <<>>
    /\ lookups = <<>>
    /\ validator = None
    /\ invoked = <<>>

AddType ==
    /\ pc = "types"
    /\ Len(history) < MaxRegistrations
    /\ \E type \in TypeNames, toDb \in ToDbArguments, fromDb \in FromDbArguments :
          LET r == addType(toDbFunctions, fromDbFunctions, type, toDb, fromDb)
          IN  /\ toDbFunctions' = r.toDbFunctions
              /\ fromDbFunctions' = r.fromDbFunctions
              /\ history' = Append(history, [type |-> type, toDb |-> toDb, fromDb |-> fromDb])
              /\ data' = [call |-> "addType", type |-> type]
    /\ ret' = Undefined
    /\ thrown' = None
    /\ UNCHANGED pc
    /\ UNCHANGED typesVars

\* the return or the exception of a lookup
Looked(call0, value, type, r) ==
    /\ data' = [call |-> call0, value |-> value, type |-> type]
    /\ IF IsThrow(r)
       THEN thrown' = r.throw /\ ret' = None
       ELSE ret' = r.return /\ thrown' = None
    /\ UNCHANGED <<pc, toDbFunctions, fromDbFunctions, history>>
    /\ UNCHANGED typesVars

ValueToDbFormat ==
    /\ pc = "types"
    /\ \E value \in LookupValues, type \in LookupTypes :
          Looked("valueToDbFormat", value, type,
                 valueToDbFormat(toDbFunctions, value, type, "undefined"))

DbFormatToValue ==
    /\ pc = "types"
    /\ \E value \in LookupValues, type \in LookupTypes :
          Looked("dbFormatToValue", value, type,
                 dbFormatToValue(fromDbFunctions, value, type, "undefined"))

NextTypes == AddType \/ ValueToDbFormat \/ DbFormatToValue

SpecTypes == InitTypes /\ [][NextTypes]_vars

(***************************************************************************)
(* The numeric-string helper of types.js called on its own                 *)
(***************************************************************************)
\* strings that begin with neither 0x nor b
OtherPrefixes == {<<>>, <<"1", "2">>, <<"0", "b", "1">>, <<"0", "X", "1">>,
                  <<"x", "1">>, <<"B", "1">>, <<"0">>}

InitBuffer ==
    /\ pc = "buffer"
    /\ data \in {Chars(s) : s \in HexStrings \cup BinStrings \cup OtherPrefixes}
    /\ toDbFunctions = builtinToDb
    /\ fromDbFunctions = builtinFromDb
    /\ history = <<>>
    /\ NoCollections
    /\ ret = None
    /\ thrown = None
    /\ schema = None
    /\ validationData = None
    /\ trail = <<>>
    /\ lookups = <<>>
    /\ validator = None
    /\ invoked = <<>>

\* one call numericStringToBuffer(data)
NumericStringToBuffer ==
    /\ pc = "buffer"
    /\ pc' = "buffered"
    /\ IF IsThrow(numericStringToBuffer(data.chars))
       THEN thrown' = numericStringToBuffer(data.chars).throw /\ ret' = None
       ELSE ret' = numericStringToBuffer(data.chars).return /\ thrown' = None
    /\ UNCHANGED <<data, toDbFunctions, fromDbFunctions, history>>
    /\ UNCHANGED typesVars

NextBuffer == NumericStringToBuffer

SpecBuffer == InitBuffer /\ [][NextBuffer]_vars

(***************************************************************************)
(* What the claims speak of: the nodes of a master schema and the names a  *)
(* required / unmodifiableProperties spec gives for a mode                 *)
(***************************************************************************)
NamesOfBranch(x) ==
    IF IsStr(x) THEN (IF x.string = "" THEN {} ELSE {x.string}) ELSE Range(x.Array)

\* the names of the upsert branch and of the branch of the mode, or the
\* names of a single name or list
SpecNames(node, key, mode) ==
    IF ~Has(node, key) THEN {}
    ELSE LET s == node[key]
         IN  IF IsObj(s)
             THEN UNION {NamesOfBranch(s.Object[k]) : k \in DOMAIN s.Object \cap {"upsert", mode}}
             ELSE NamesOfBranch(s)

\* every node of the master schema with its path: <<path, node>>, the node
\* with its $ref resolved
RECURSIVE MasterNodes(_, _, _)
MasterNodes(node, path, root) ==
    LET e == resolveRef(node, root)
    IN  {<<path, e>>}
        \cup (IF Has(e, "properties")
               THEN UNION {MasterNodes(e.properties[p], path \o ".properties." \o p, root) :
                             p \in DOMAIN e.properties}
               ELSE {})
        \cup (IF ~Has(e, "items") THEN {}
               ELSE IF IsArr(e.items)
               THEN UNION {MasterNodes(e.items.Array[i],
                                       path \o ".items[" \o ToString(i - 1) \o "]", root) :
                             i \in 1..Len(e.items.Array)}
               ELSE MasterNodes(e.items.Object, path \o ".items", root))
        \cup (IF Has(e, "additionalItems")
               THEN MasterNodes(e.additionalItems, path \o ".additionalItems", root)
               ELSE {})

\* every node of the master schema that has a corresponding node in the
\* derived schema: <<master node, derived node>>
RECURSIVE NodePairs(_, _, _)
NodePairs(node, derived, root) ==
    LET e == resolveRef(node, root)
    IN  {<<e, derived>>}
        \cup (IF Has(e, "properties") /\ Has(derived, "properties")
               THEN UNION {NodePairs(e.properties[p], derived.properties[p], root) :
                             p \in DOMAIN e.properties \cap DOMAIN derived.properties}
               ELSE {})
        \cup (IF ~(Has(e, "items") /\ Has(derived, "items")) THEN {}
               ELSE IF IsArr(e.items)
               THEN UNION {NodePairs(e.items.Array[i], derived.items.Array[i], root) :
                             i \in 1..Len(e.items.Array)}
               ELSE NodePairs(e.items.Object, derived.items.Object, root))
        \cup (IF Has(e, "additionalItems") /\ Has(derived, "additionalItems")
               THEN NodePairs(e.additionalItems, derived.additionalItems, root)
               ELSE {})

Returned == pc = "done" /\ ~IsNone(validationData)

\* [path, property, mode] of every name that a node has both in its
\* required list and in its unmodifiable list for the mode
Conflicts(sch) ==
    {[path |-> pn[1], property |-> p, mode |-> m] :
        <<pn, p, m>> \in
            {c \in MasterNodes(sch, "schema", sch) \X PropertyNames \X Modes :
                c[2] \in SpecNames(c[1][2], "required", c[3])
                           \cap SpecNames(c[1][2], "unmodifiableProperties", c[3])}}

\* the paths of the nodes that set unmodifiableProperties while
\* additionalProperties is not the boolean false
PolicyViolations(sch) ==
    {pn[1] : pn \in {x \in MasterNodes(sch, "schema", sch) :
        /\ Has(x[2], "unmodifiableProperties")
        /\ Truthy(x[2].unmodifiableProperties)
        /\ ~(Has(x[2], "additionalProperties") /\ IsFalse(x[2].additionalProperties))}}

(***************************************************************************)
(* Claims on getValidationData                                             *)
(***************************************************************************)

\* C1: whenever some node of the master schema has a name both in its
\* required list and in its unmodifiable list for a mode, getValidationData
\* raises a MongolError whose message names such a property, its path and
\* the mode, and returns no validation data.
C1_ConflictRaises ==
    (pc = "done" /\ Conflicts(schema) # {}) =>
        /\ IsNone(validationData)
        /\ \E c \in Conflicts(schema) :
              thrown = MongolError(conflictMessage(c.property, c.path, c.mode))

\* C2: whenever some node sets unmodifiableProperties while its
\* additionalProperties is not the boolean false (with or without
\* properties, with or without required), derivation raises the policy
\* error naming the path of such a node.
C2_PolicyRaises ==
    (pc = "done" /\ PolicyViolations(schema) # {}) =>
        \E path \in PolicyViolations(schema) :
            thrown = MongolError(policyMessage(path))

C4_UnmodifiableOmitted ==
    Returned =>
        \A m \in Modes :
          \A nd \in NodePairs(schema, validationData[m].schema, schema) :
            (/\ Has(nd[1], "properties")
             /\ Has(nd[1], "unmodifiableProperties")
             /\ Has(nd[2], "properties")) =>
                LET unmod == SpecNames(nd[1], "unmodifiableProperties", m)
                IN  /\ DOMAIN nd[2].properties \cap unmod = {}
                    /\ (Has(nd[2], "required") /\ IsArr(nd[2].required)) =>
                          Range(nd[2].required.Array) \cap unmod = {}
                    /\ DOMAIN nd[1].properties \ unmod \subseteq DOMAIN nd[2].properties

\* the shape of C5: properties, unmodifiableProperties and
\* additionalProperties: false, but no required
C5_Shape(sch) ==
    /\ Has(sch, "properties")
    /\ Has(sch, "unmodifiableProperties")
    /\ Has(sch, "additionalProperties") /\ IsFalse(sch.additionalProperties)
    /\ ~Has(sch, "required")
    /\ ~Has(sch, "$ref")

\* C5: a node with properties, unmodifiableProperties and
\* additionalProperties: false but no required is derived without any
\* error for both modes, and both derived schemas omit the unmodifiable
\* names from properties.
C5_NoRequiredDerives ==
    (pc = "done" /\ C5_Shape(schema)) =>
        /\ (IsNone(thrown) \/ thrown = AjvError)
        /\ Returned =>
             \A m \in Modes :
                DOMAIN validationData[m].schema.properties
                    \cap SpecNames(schema, "unmodifiableProperties", m) = {}

(***************************************************************************)
(* Claims on the transcoder and the int128 conversions                     *)
(***************************************************************************)
RoundTripInput == [data |-> data, schema |-> schema] \in RoundTripInputs

\* the strings at the leaves of a document
RECURSIVE StringLeaves(_)
StringLeaves(doc) ==
    IF IsChars(doc) THEN {doc.chars}
    ELSE IF IsObj(doc) THEN UNION {StringLeaves(doc.Object[k]) : k \in DOMAIN doc.Object}
    ELSE IF IsArr(doc) THEN UNION {StringLeaves(doc.Array[i]) : i \in 1..Len(doc.Array)}
    ELSE {}

LowercaseHex(cs) ==
    /\ startsWith(cs, <<"0", "x">>)
    /\ \A i \in 3..Len(cs) : cs[i] \in Range(Digits)

\* lowercase, an even number of digits, no leading zero byte
Canonical(cs) ==
    /\ LowercaseHex(cs)
    /\ Len(cs) % 2 = 0
    /\ ~startsWith(cs, <<"0", "x", "0", "0">>)

\* C6 as stated: RT(RT(d)) = RT(d), and RT(d) = d whenever the hex strings
\* are lowercase, have an even number of digits and no leading zero byte.
\* trail[2] is RT(d) and trail[4] is RT(RT(d)).
C6_RoundTripAsStated ==
    RoundTripInput =>
        /\ IsNone(thrown)
        /\ Len(trail) >= 4 => trail[4] = trail[2]
        /\ (Len(trail) >= 2 /\ \A cs \in StringLeaves(data) : Canonical(cs)) =>
              trail[2] = data

\* C6 (amended): for documents whose int128 leaves are 0x or b strings,
\* RT(RT(d)) = RT(d), and RT(d) = d whenever the hex strings are lowercase,
\* have an even number of digits, at least one digit and no leading zero
\* byte.
C6_RoundTrip ==
    RoundTripInput =>
        /\ IsNone(thrown)
        /\ Len(trail) >= 4 => trail[4] = trail[2]
        /\ (Len(trail) >= 2 /\ \A cs \in StringLeaves(data) : Canonical(cs) /\ Len(cs) > 2) =>
              trail[2] = data

\* {id: "0x.."} with two canonical bytes went round twice and came back
C6_Witness ==
    /\ RoundTripInput
    /\ Len(trail) = 4
    /\ \E cs \in StringLeaves(data) : Canonical(cs) /\ Len(cs) = 6
    /\ trail[2] = data
    /\ trail[4] = data
    /\ trail[1] # data

StoredInput == [data |-> data, schema |-> schema] \in StoredInputs

\* the value of the two hex digits that stand for byte k (1 = lowest) in
\* a string that renders h bytes
PairValue(cs, h, k) ==
    digitValue(cs[2 + 2 * (h - k) + 1], 16) * 16 + digitValue(cs[2 + 2 * (h - k) + 2], 16)

\* C7: the int128 storage->value conversion gives "0x" and two lowercase
\* hex digits per byte from the highest non-zero byte down to byte 0, and
\* "0x00" when every byte is zero; there is always at least one byte pair.
C7_Int128FromDb ==
    (StoredInput /\ Len(trail) >= 1) =>
        LET bytes == data.Object.id.Decimal128
            cs == trail[1].Object.id.chars
            nonZero == {i \in 1..Len(bytes) : bytes[i] # 0}
        IN  /\ startsWith(cs, <<"0", "x">>)
            /\ Len(cs) >= 4
            /\ \A i \in 3..Len(cs) : cs[i] \in Range(Digits)
            /\ nonZero = {} => cs = <<"0", "x", "0", "0">>
            /\ nonZero # {} =>
                  \E h \in nonZero :
                      /\ \A i \in nonZero : i <= h
                      /\ Len(cs) = 2 + 2 * h
                      /\ \A k \in 1..h : PairValue(cs, h, k) = bytes[k]

\* 16 bytes with the highest-order bytes zero, a zero in the middle, and a
\* byte below 16: <<10, 0, 1, 0, ...>> was rendered as "0x01000a"
C7_Witness ==
    /\ StoredInput
    /\ Len(trail) >= 1
    /\ data.Object.id.Decimal128 = <<10, 0, 1>>
    /\ trail[1].Object.id.chars = <<"0", "x", "0", "1", "0", "0", "0", "a">>

\* C9: with a null / absent schema, or a null / absent document, both
\* functions return the data argument unconverted, without consulting the
\* type registry and without raising.
C9_PassThrough ==
    (IsNullish(schema) \/ IsNullish(data)) =>
        /\ IsNone(thrown)
        /\ lookups = <<>>
        /\ \A i \in 1..Len(trail) : trail[i] = data

\* both functions were given a document with a typed-looking leaf and no
\* schema
C9_Witness ==
    /\ IsNullish(schema)
    /\ data = Obj([id |-> Chars(<<"0", "x", "1", "a">>)])
    /\ Len(trail) >= 2
    /\ trail[2] = data

ListInput == [data |-> data, schema |-> schema] \in ListInputs

\* the schema C10 gives the element at JS index i; the claim says nothing
\* of an index past the tuple when there is no additionalItems
C10_Covered(ls, i) ==
    IsObj(ls.items) \/ i < Len(ls.items.Array) \/ Has(ls, "additionalItems")

C10_Schema(ls, i) ==
    IF IsObj(ls.items) THEN ls.items.Object
    ELSE IF i < Len(ls.items.Array) THEN ls.items.Array[i + 1]
    ELSE ls.additionalItems

\* an element converted with a schema
C10_Converted(element, sch, convertValue) ==
    IF constructorName(element) \in {"Object", "Array"}
    THEN convertElement(sch, element, schema, convertValue).return
    ELSE call(convertValue.functions[sch.mongoType], element, "undefined").return

\* C10: in a list with a tuple schema [s0..s(k-1)] and additionalItems sC,
\* the element at index i is converted with s_i for i < k and with sC for
\* i >= k; with a single item schema, that schema is used for every index.
C10_ItemSchemas ==
    ListInput =>
        \A j \in 1..Len(trail) :
            LET before == IF j = 1 THEN data ELSE trail[j - 1]
                convertValue ==
                    IF j % 2 = 1
                    THEN [name |-> "valueToDbFormat", functions |-> toDbFunctions]
                    ELSE [name |-> "dbFormatToValue", functions |-> fromDbFunctions]
                ls == schema.properties.l
            IN  /\ Len(trail[j].Object.l.Array) = Len(before.Object.l.Array)
                /\ \A i \in 0..(Len(before.Object.l.Array) - 1) :
                      C10_Covered(ls, i) =>
                          LET sch == C10_Schema(ls, i)
                              element == before.Object.l.Array[i + 1]
                          IN  trail[j].Object.l.Array[i + 1] =
                                IF constructorName(element) \in {"Object", "Array"}
                                   \/ Has(sch, "mongoType")
                                THEN C10_Converted(element, sch, convertValue)
                                ELSE element

\* [5, 5, 5] against items [int128, int32] and an untyped additionalItems
C10_Witness ==
    /\ ListInput
    /\ Len(trail) >= 1
    /\ schema.properties.l = [items |-> Arr(<<Int128, Int32>>), additionalItems |-> EmptyObj]
    /\ data.Object.l.Array = <<Num(5), Num(5), Num(5)>>
    /\ trail[1].Object.l.Array =
          <<[Decimal128 |-> writeBigInt64LE(5)], [Int32 |-> 5], Num(5)>>

(***************************************************************************)
(* Claims on validateDocument                                              *)
(***************************************************************************)
\* the JS indexes of the documents of the batch that the validator rejects
Failing == {i \in 0..(Len(data.Array) - 1) : data.Array[i + 1] \notin validator.accepts}

\* C8: on a list with a validator, validateDocument raises exactly when
\* some element fails; the error carries the smallest failing index, that
\* element and its errors; the validator is not invoked on later elements;
\* a list whose elements all pass (the empty list too) raises nothing.
C8_FirstFailure ==
    (pc = "done" /\ IsArr(data) /\ ~IsUndefined(validator)) =>
        /\ Failing = {} => IsNone(thrown) /\ invoked = data.Array
        /\ Failing # {} =>
              \E i \in Failing :
                  /\ \A k \in Failing : i <= k
                  /\ thrown = [errorType |-> "MongolError",
                               error |-> errorsOf(data.Array[i + 1]),
                               document |-> data.Array[i + 1],
                               index |-> i]
                  /\ invoked = SubSeq(data.Array, 1, i + 1)

\* a batch of three whose second and third documents fail: index 1 is
\* reported and the third document was never validated
C8_Witness ==
    /\ pc = "done"
    /\ IsArr(data)
    /\ ~IsUndefined(validator)
    /\ Len(data.Array) = 3
    /\ Failing = {1, 2}
    /\ thrown.index = 1
    /\ Len(invoked) = 2

(***************************************************************************)
(* Claims on the type registry                                             *)
(***************************************************************************)
IsLookup == "call" \in DOMAIN data /\ data.call \in {"valueToDbFormat", "dbFormatToValue"}

\* the names passed to addType so far: at load, or since
Registered == BuiltinTypes \cup {history[i].type : i \in 1..Len(history)}

\* C11: for every type name never passed to addType (the empty name, an
\* absent name, any other string), valueToDbFormat and dbFormatToValue
\* return the value itself and raise nothing.
C11_UnregisteredPassThrough ==
    (IsLookup /\ data.type \notin Registered) =>
        /\ IsNone(thrown)
        /\ ret = data.value

\* the last addType call for the name
LastRegistration(n) ==
    history[CHOOSE i \in 1..Len(history) :
                /\ history[i].type = n
                /\ \A j \in (i + 1)..Len(history) : history[j].type # n]

\* the function in effect for the name in the direction of the lookup:
\* that of the last addType call, or of the registration made at load
InEffect(n, direction) ==
    IF \E i \in 1..Len(history) : history[i].type = n
    THEN (IF direction = "valueToDbFormat"
          THEN LastRegistration(n).toDb ELSE LastRegistration(n).fromDb)
    ELSE (IF direction = "valueToDbFormat" THEN builtinToDb[n] ELSE builtinFromDb[n])

\* C12: a lookup of a registered name uses the toDb (fromDb) function of
\* the most recent addType call for that name, whatever was registered
\* before, and names that were not registered again keep their functions.
C12_LastWriterWins ==
    (IsLookup /\ data.type \in Registered) =>
        LET fn == InEffect(data.type, data.call)
            r == IF fn = "undefined" THEN Return(data.value)
                 ELSE call(fn, data.value, "undefined")
        IN  IF IsThrow(r) THEN thrown = r.throw ELSE IsNone(thrown) /\ ret = r.return

\* "custom" was registered twice with different functions, and a
\* dbFormatToValue lookup used the fromDb function of the second call
C12_Witness ==
    /\ IsLookup
    /\ data.call = "dbFormatToValue"
    /\ data.type = "custom"
    /\ Len(history) = 2
    /\ history[1] = [type |-> "custom", toDb |-> "f.toDb", fromDb |-> "f.fromDb"]
    /\ history[2] = [type |-> "custom", toDb |-> "g.toDb", fromDb |-> "g.fromDb"]
    /\ ret = [library |-> "g.fromDb", value |-> data.value, encoding |-> "undefined"]

(***************************************************************************)
(* Claims on validateDocument without a validator                          *)
(***************************************************************************)
\* C13: with an absent validator validateDocument checks nothing and
\* raises nothing, for one document, a list of documents, and a null or
\* absent document alike.
C13_AbsentValidatorSkips ==
    (pc = "done" /\ IsUndefined(validator)) => (IsNone(thrown) /\ invoked = <<>>)

(***************************************************************************)
(* Claims on the shapes the transcoder accepts                             *)
(***************************************************************************)
\* a documentToDbFormat or dbFormatToDocument call was made
Called == trail # <<>> \/ pc = "done"

Composite(v) == IsObj(v) \/ IsArr(v)
Scalar(v) == ~IsNullish(v) /\ ~Composite(v)

\* the names of the document under which there is a map or a list and for
\* which the schema has no properties entry
SchemalessKeys ==
    IF IsObj(data) /\ ~falsy(schema)
    THEN {k \in DOMAIN data.Object :
            Composite(data.Object[k]) /\ ~hasProperty(refSchemaOf(schema, schema), k)}
    ELSE {}

\* C15: a nested map or list under a name the schema has no sub-schema
\* for is transcoded without an error and comes back unchanged.
C15_SchemalessSubtree ==
    \A k \in SchemalessKeys :
        Called =>
            /\ IsNone(thrown)
            /\ \A i \in 1..Len(trail) :
                    /\ IsObj(trail[i])
                    /\ k \in DOMAIN trail[i].Object
                    /\ trail[i].Object[k] = data.Object[k]

\* a null or undefined value under a name of the map, or in a list of it
RECURSIVE HasNullLeaf(_)
HasNullLeaf(v) ==
    IF IsObj(v)
    THEN \E k \in DOMAIN v.Object :
            IsNullish(v.Object[k]) \/ HasNullLeaf(v.Object[k])
    ELSE IF IsArr(v)
    THEN \E i \in 1..Len(v.Array) : IsNullish(v.Array[i]) \/ HasNullLeaf(v.Array[i])
    ELSE FALSE

\* C16: a null or undefined value in a map or a list is a leaf like any
\* other scalar: it is passed to the type registry and the transcode does
\* not abort.
C16_NullLeaf ==
    (IsObj(data) /\ ~falsy(schema) /\ SchemalessKeys = {} /\ HasNullLeaf(data) /\ Called) =>
        /\ IsNone(thrown)
        /\ \E i \in 1..Len(lookups) : IsNullish(lookups[i].value)

\* C17: a top-level document that is present and is neither a map nor a
\* list (0, the empty string and false included), and such a value as an
\* element of a top-level list, raise the 'only objects and arrays' error.
C17_ScalarRaises ==
    (/\ ~falsy(schema)
     /\ Called
     /\ \/ Scalar(data)
        \/ IsArr(data) /\ \E i \in 1..Len(data.Array) : Scalar(data.Array[i])) =>
        (thrown = OnlyObjectsAndArrays /\ trail = <<>>)

\* the same names and lengths at every depth
RECURSIVE SameShape(_, _)
SameShape(a, b) ==
    IF IsObj(a)
    THEN /\ IsObj(b)
         /\ DOMAIN a.Object = DOMAIN b.Object
         /\ \A k \in DOMAIN a.Object : SameShape(a.Object[k], b.Object[k])
    ELSE IF IsArr(a)
    THEN /\ IsArr(b)
         /\ Len(a.Array) = Len(b.Array)
         /\ \A i \in 1..Len(a.Array) : SameShape(a.Array[i], b.Array[i])
    ELSE ~Composite(b)

\* C18: a transcode call returns a document with every member of its
\* input, or raises; when it raises nothing is returned; either way the
\* input document and both registries are what they were before the call.
C18_AllOrNothing ==
    [][/\ data' = data
       /\ toDbFunctions' = toDbFunctions
       /\ fromDbFunctions' = fromDbFunctions
       /\ IF IsNone(thrown')
          THEN /\ Len(trail') = Len(trail) + 1
               /\ SameShape(current, trail'[Len(trail')])
          ELSE trail' = trail]_vars

\* the int128 converter raised at the second leaf, after the first leaf
\* was converted, and the call returned nothing
C18_Witness ==
    /\ pc = "done"
    /\ thrown = Chars(<<"Invalid value">>)
    /\ Len(lookups) = 2
    /\ schema = PairSchema
    /\ IsObj(data)
    /\ trail = <<>>

(***************************************************************************)
(* Claims on what getValidationData leaves alone                           *)
(***************************************************************************)
\* the identities of the master objects and arrays found in a schema node
RECURSIVE Shared(_)
RECURSIVE SharedProperty(_, _)
SharedProperty(obj, key) ==
    IF key \in StringKeys THEN {}
    ELSE IF key \in MapKeys
    THEN (IF Has(obj[key], "#") THEN {obj[key]["#"]} ELSE {})
         \cup UNION {Shared(obj[key][p]) : p \in ownKeys(obj[key])}
    ELSE IF key \in NodeKeys THEN Shared(obj[key])
    ELSE IF IsArr(obj[key])
    THEN (IF Has(obj[key], "at") THEN {obj[key].at} ELSE {})
         \cup (IF key = "items"
               THEN UNION {Shared(obj[key].Array[i]) : i \in 1..Len(obj[key].Array)}
               ELSE {})
    ELSE IF IsObj(obj[key]) THEN Shared(obj[key].Object)
    ELSE {}

Shared(obj) ==
    (IF Has(obj, "#") THEN {obj["#"]} ELSE {})
    \cup UNION {SharedProperty(obj, k) : k \in ownKeys(obj)}

\* C14: getValidationData leaves the master schema as it was, whether it
\* returns or raises, and no object or array of the insert and update
\* schemas it returns is an object or array of the master schema, nodes
\* reached through $ref included.
C14_MasterUntouched ==
    [][/\ schema' = schema
       /\ ~IsNone(validationData') =>
            /\ Shared(validationData'.insert.schema) = {}
            /\ Shared(validationData'.update.schema) = {}]_vars

\* the property a refers to a definition that has a list and an object
\* under names copied as they are; the derived property has both
C14_Witness ==
    /\ pc = "done"
    /\ ~IsNone(validationData)
    /\ Has(schema, "properties")
    /\ Has(schema.properties, "a")
    /\ Has(schema.properties.a, "$ref")
    /\ "schema.definitions.d.required" \in Shared(schema)
    /\ "schema.definitions.d.additionalProperties" \in Shared(schema)
    /\ Has(validationData.insert.schema.properties.a, "required")
    /\ IsObj(validationData.insert.schema.properties.a.additionalProperties)

(***************************************************************************)
(* The Collection class and connexion.js.  An instance is                  *)
(* [name, parameters, validationData, collectionBound]; a reference to the *)
(* i-th instance is [instance |-> i].  A bindCollection call in progress   *)
(* is [instance, pc, exists, done]: pc is the await it stands at, done the *)
(* server operations it has awaited.  Names have no database part, so      *)
(* collName is the name.                                                   *)
(***************************************************************************)
\* Collection.collections[name]: the own property, else the property that
\* the object literal inherits from Object.prototype, else undefined
registered(colls, name) ==
    IF name \in DOMAIN colls THEN [instance |-> colls[name]]
    ELSE IF name \in ObjectPrototype THEN [function |-> "Object.prototype." \o name]
    ELSE Undefined

\* lines 47-50: the parameters with the absent ones set to {}
defaulted(parameters) ==
    [k \in {"schema", "indexes", "methods", "properties"} |->
        IF Has(parameters, k) THEN parameters[k] ELSE EmptyObj]

\* this.parameters.properties[flag], as a condition
flag(properties, name) == Has(properties, name) /\ properties[name]

\* lines 89-110: the operations bindCollection awaits, in order
awaits == <<"dropCollection", "createCollection", "dropIndexes", "createIndexes">>

\* lines 89-110: whether bindCollection comes to await the operation
awaited(op, properties, exists) ==
    IF ~exists THEN op \in {"createCollection", "createIndexes"}
    ELSE CASE op = "dropCollection" -> flag(properties, "dropCollection")
           [] op = "createCollection" -> flag(properties, "createCollection")
           [] op = "dropIndexes" -> flag(properties, "createIndexes")
           [] op = "createIndexes" -> flag(properties, "createIndexes")

\* the await after the i-th one (0: after db.collections()), or "bound"
\* when lines 112-113 are reached
nextAwait(i, properties, exists) ==
    IF \E j \in (i + 1)..Len(awaits) : awaited(awaits[j], properties, exists)
    THEN awaits[CHOOSE j \in (i + 1)..Len(awaits) :
                    /\ awaited(awaits[j], properties, exists)
                    /\ \A k \in (i + 1)..(j - 1) : ~awaited(awaits[k], properties, exists)]
    ELSE "bound"

position(op) == CHOOSE j \in 1..Len(awaits) : awaits[j] = op

\* lines 68-79: bindCollection up to its first await
started(i) == [instance |-> i, pc |-> "collections", exists |-> FALSE, done |-> <<>>]

\* the server after the operation: drop removes the collection,
\* createCollection and createIndexes leave it existing
serverAfter(op, name, existing) ==
    IF op = "dropCollection" THEN existing \ {name}
    ELSE IF op \in {"createCollection", "createIndexes"} THEN existing \cup {name}
    ELSE existing

\* the arguments of new Collection
CollectionNames == {"users", "constructor"}
PropertyFlags ==
    {EmptyObj,
     [dropCollection |-> TRUE, createCollection |-> TRUE],
     [dropIndexes |-> TRUE],
     [createIndexes |-> TRUE],
     [dropIndexes |-> TRUE, createIndexes |-> TRUE],
     [dropCollection |-> TRUE, createCollection |-> TRUE,
      dropIndexes |-> TRUE, createIndexes |-> FALSE]}
ConflictSchema ==
    [properties |-> [_id |-> EmptyObj], required |-> Arr(<<"_id">>),
     unmodifiableProperties |-> Str("_id"), additionalProperties |-> JsFalse]
Parameters ==
    {EmptyObj, [schema |-> ConflictSchema]}
    \cup {[properties |-> p] : p \in PropertyFlags \ {EmptyObj}}
    \cup {[properties |-> [createIndexes |-> TRUE], indexes |-> [byName |-> [name |-> 1]]]}

InitClass ==
    /\ pc = "class"
    /\ collections = <<>>
    /\ instances = <<>>
    /\ connectionStatus = ""
    /\ namespaces \in {{}, {"users"}}
    /\ binds = <<>>
    /\ waits = <<>>
    /\ NoConnexion
    /\ history = <<>>
    /\ thrown = None
    /\ ret = None
    /\ schema = None
    /\ data = None
    /\ validationData = None
    /\ trail = <<>>
    /\ lookups = <<>>
    /\ toDbFunctions = builtinToDb
    /\ fromDbFunctions = builtinFromDb
    /\ validator = None
    /\ invoked = <<>>

\* lines 39-66: new Collection(name, parameters) when no property of
\* Collection.collections is found under the name
construct(name, parameters, derived) ==
    /\ instances' = Append(instances,
            [name |-> name,
             parameters |-> defaulted(parameters),
             validationData |-> IF IsThrow(derived) THEN Undefined ELSE derived.return,
             collectionBound |-> FALSE])
    /\ binds' = IF connectionStatus = "connected"
                THEN Append(binds, started(Len(instances) + 1)) ELSE binds
    /\ collections' = (name :> (Len(instances) + 1)) @@ collections
    /\ IF IsThrow(derived)
       THEN /\ thrown' = derived.throw
            /\ ret' = None
            /\ history' = Append(history, [name |-> name, parameters |-> parameters,
                                           result |-> Throw(derived.throw)])
       ELSE /\ thrown' = None
            /\ ret' = [instance |-> Len(instances) + 1]
            /\ history' = Append(history, [name |-> name, parameters |-> parameters,
                                           result |-> [instance |-> Len(instances) + 1]])

\* lines 39-66
NewCollection ==
    /\ Len(history) < MaxConstructions
    /\ \E name \in CollectionNames, parameters \in Parameters :
          IF ~IsUndefined(registered(collections, name))
          THEN /\ ret' = registered(collections, name)
               /\ thrown' = None
               /\ history' = Append(history, [name |-> name, parameters |-> parameters,
                                              result |-> registered(collections, name)])
               /\ UNCHANGED <<collections, instances, binds>>
          ELSE construct(name, parameters,
                         getValidationData(defaulted(parameters).schema))
    /\ UNCHANGED <<pc, connectionStatus, namespaces, waits>>
    /\ UNCHANGED classVars

\* connexion.js lines 12-18, after client.connect() has resolved: every
\* instance has its bindCollection listening (line 56)
Connect ==
    /\ Len(binds) + Len(instances) <= MaxBinds
    /\ connectionStatus' = "connected"
    /\ binds' = binds \o [i \in 1..Len(instances) |-> started(i)]
    /\ UNCHANGED <<pc, collections, instances, namespaces, history, thrown, ret, waits>>
    /\ UNCHANGED classVars

\* connexion.js lines 20-25, after client.close() has resolved
Disconnect ==
    /\ connectionStatus = "connected"
    /\ connectionStatus' = "disconnected"
    /\ UNCHANGED <<pc, collections, instances, namespaces, binds, history, thrown, ret,
                   waits>>
    /\ UNCHANGED classVars

\* a bindCollection call of the instance, other than the excluded ones, has
\* not come to its end
running(i, excluded) ==
    \E b \in (1..Len(binds)) \ excluded : binds[b].instance = i /\ binds[b].pc # "bound"

\* line 112: emit('collection-bound') calls resolve of the promises that
\* wait on the instance of the bindCollection call b
emitted(b) ==
    [w \in 1..Len(waits) |->
        IF waits[w].instance = binds[b].instance /\ ~waits[w].resolved
        THEN [instance |-> waits[w].instance, resolved |-> TRUE,
              binding |-> running(binds[b].instance, {b})]
        ELSE waits[w]]

\* the bindCollection call b goes from the await at next on; at the end,
\* lines 112-113
proceed(b, exists, done, next) ==
    /\ binds' = [binds EXCEPT ![b] = [instance |-> binds[b].instance, pc |-> next,
                                      exists |-> exists, done |-> done]]
    /\ instances' = IF next = "bound"
                    THEN [instances EXCEPT ![binds[b].instance].collectionBound = TRUE]
                    ELSE instances
    /\ waits' = IF next = "bound" THEN emitted(b) ELSE waits

\* lines 79-89: db.collections() has resolved
ListCollections ==
    /\ \E b \in 1..Len(binds) :
          /\ binds[b].pc = "collections"
          /\ proceed(b, instances[binds[b].instance].name \in namespaces, <<>>,
                     nextAwait(0, instances[binds[b].instance].parameters.properties,
                               instances[binds[b].instance].name \in namespaces))
    /\ UNCHANGED <<pc, collections, connectionStatus, namespaces, history, thrown, ret>>
    /\ UNCHANGED classVars

\* lines 95-109: the operation awaited has resolved
Await ==
    /\ \E b \in 1..Len(binds) :
          /\ binds[b].pc \in Range(awaits)
          /\ namespaces' = serverAfter(binds[b].pc, instances[binds[b].instance].name,
                                       namespaces)
          /\ proceed(b, binds[b].exists, Append(binds[b].done, binds[b].pc),
                     nextAwait(position(binds[b].pc),
                               instances[binds[b].instance].parameters.properties,
                               binds[b].exists))
    /\ UNCHANGED <<pc, collections, connectionStatus, history, thrown, ret>>
    /\ UNCHANGED classVars

\* lines 152-157: waitForInitializaton() of an instance; binding tells
\* whether a bindCollection call of the instance was on its way when the
\* promise was resolved
WaitForInitializaton ==
    /\ Len(waits) < MaxWaits
    /\ \E i \in 1..Len(instances) :
          waits' = Append(waits,
                      IF instances[i].collectionBound
                      THEN [instance |-> i, resolved |-> TRUE, binding |-> running(i, {})]
                      ELSE [instance |-> i, resolved |-> FALSE, binding |-> FALSE])
    /\ UNCHANGED <<pc, collections, instances, connectionStatus, namespaces, binds,
                   history, thrown, ret>>
    /\ UNCHANGED classVars

NextClass ==
    NewCollection \/ Connect \/ Disconnect \/ ListCollections \/ Await
    \/ WaitForInitializaton

SpecClass == InitClass /\ [][NextClass]_vars

(***************************************************************************)
(* Claims on the Collection class                                          *)
(***************************************************************************)
\* the first new Collection call with the name
FirstCall(name) ==
    history[CHOOSE i \in 1..Len(history) :
                /\ history[i].name = name
                /\ \A j \in 1..(i - 1) : history[j].name # name]

\* C19: after any new Collection calls there is at most one instance per
\* name, every call with a name that returned gave the one instance
\* registered under it, and that instance has the parameters of the first
\* call with the name.
C19_OnePerName ==
    /\ \A i, j \in 1..Len(instances) : instances[i].name = instances[j].name => i = j
    /\ \A i \in 1..Len(history) :
          ~IsThrow(history[i].result) =>
             /\ "instance" \in DOMAIN history[i].result
             /\ history[i].name \in DOMAIN collections
             /\ history[i].result.instance = collections[history[i].name]
             /\ instances[collections[history[i].name]].parameters
                    = defaulted(FirstCall(history[i].name).parameters)

\* a bindCollection call that found the collection on the server and came
\* to its end awaited the operation
Awaited(b, op) == op \in Range(binds[b].done)

Before(b, first, second) ==
    (Awaited(b, first) /\ Awaited(b, second)) =>
        \E i, j \in 1..Len(binds[b].done) :
            i < j /\ binds[b].done[i] = first /\ binds[b].done[j] = second

\* C20: when the collection exists on the server, bindCollection drops
\* the indexes exactly when properties.dropIndexes is true, drops the
\* collection before it creates it and the indexes before it creates them.
C20_DropsAsRequested ==
    \A b \in 1..Len(binds) :
        (binds[b].pc = "bound" /\ binds[b].exists) =>
            /\ Awaited(b, "dropIndexes")
                  <=> flag(instances[binds[b].instance].parameters.properties, "dropIndexes")
            /\ Before(b, "dropCollection", "createCollection")
            /\ Before(b, "dropIndexes", "createIndexes")

(***************************************************************************)
(* Claims on the nodes the transformer derives                             *)
(***************************************************************************)
\* the nodes of the master schema that carry $ref: the root, a property
Referring(sch) ==
    {n \in {sch} \cup (IF Has(sch, "properties")
                       THEN {sch.properties[p] : p \in DOMAIN sch.properties}
                       ELSE {}) : Has(n, "$ref")}

\* the node a $ref leads to from the root, or no keys when it leads nowhere
Referenced(node, root) ==
    IF walkRef(root, node["$ref"]).found THEN walkRef(root, node["$ref"]).value
    ELSE EmptyObj

\* C22: the node obtained from a node with $ref has the names of the
\* referring and of the referenced node except $ref, and for a name that
\* both have it keeps the value of the referring node.
C22_CurrentWins ==
    pc = "done" =>
        \A node \in Referring(schema) :
            /\ DOMAIN resolveRef(node, schema)
                  = (DOMAIN node \cup DOMAIN Referenced(node, schema)) \ {"$ref"}
            /\ \A k \in DOMAIN node \ {"$ref"} : resolveRef(node, schema)[k] = node[k]

\* the pairs <<master node, derived node>> of the schema derived for the
\* mode, when the derivation does not raise
DerivedPairs(m) ==
    IF IsThrow(getSchema(schema, m)) THEN {}
    ELSE NodePairs(schema, getSchema(schema, m).return, schema)

\* C24: a derived node has a required key only when the list of the mode
\* is not empty.
C24_NoEmptyRequired ==
    pc = "done" =>
        \A m \in Modes :
          \A nd \in DerivedPairs(m) :
            Has(nd[2], "required") => (IsArr(nd[2].required) /\ nd[2].required.Array # <<>>)

\* C25: the required list of a derived node holds each name at most once.
C25_UniqueRequired ==
    pc = "done" =>
        \A m \in Modes :
          \A nd \in DerivedPairs(m) :
            (Has(nd[2], "required") /\ IsArr(nd[2].required)) =>
                \A i, j \in 1..Len(nd[2].required.Array) :
                    nd[2].required.Array[i] = nd[2].required.Array[j] => i = j

\* the keywords the transformer rebuilds or drops
Rebuilt == {"properties", "items", "required", "definitions", "unmodifiableProperties", "$ref"}

\* C26: no node of a derived schema, at any depth, has definitions or
\* unmodifiableProperties, and every keyword that is not rebuilt is in the
\* derived node with the value of the master node.
C26_DerivationKeysDropped ==
    pc = "done" =>
        \A m \in Modes :
          \A nd \in DerivedPairs(m) :
            /\ ~Has(nd[2], "definitions")
            /\ ~Has(nd[2], "unmodifiableProperties")
            /\ \A k \in DOMAIN nd[1] \ Rebuilt : Has(nd[2], k) /\ nd[2][k] = nd[1][k]

(***************************************************************************)
(* Claim on the numeric-string helper                                      *)
(***************************************************************************)
\* the value of a digit
DigitValue == "0" :> 0 @@ "1" :> 1 @@ "a" :> 10 @@ "F" :> 15

\* the number a string of digits writes in the radix
RECURSIVE Written(_, _)
Written(digits, radix) ==
    IF digits = <<>> THEN 0
    ELSE Written(SubSeq(digits, 1, Len(digits) - 1), radix) * radix
            + DigitValue[digits[Len(digits)]]

\* the number a buffer holds when it is read lowest-order byte first
RECURSIVE LittleEndian(_)
LittleEndian(buffer) ==
    IF buffer = <<>> THEN 0 ELSE buffer[1] + 256 * LittleEndian(Tail(buffer))

\* the k-th group of digits counted from the right end
GroupFromRight(digits, group, k) ==
    SubSeq(digits,
           IF Len(digits) - group * k < 0 THEN 1 ELSE Len(digits) - group * k + 1,
           Len(digits) - group * (k - 1))

\* the buffer has one byte for each group of digits, whole or not, byte k is
\* the k-th group from the right, and it reads as the number written
Holds(buffer, digits, radix, group) ==
    /\ Len(buffer) * group >= Len(digits)
    /\ (Len(buffer) - 1) * group < Len(digits) \/ Len(buffer) = 0
    /\ \A k \in 1..Len(buffer) :
          buffer[k] = Written(GroupFromRight(digits, group, k), radix)
    /\ LittleEndian(buffer) = Written(digits, radix)

\* C27: numericStringToBuffer of 0x and digits, two to a byte, or of b and
\* digits, eight to a byte, returns ceil(digits / group) bytes, byte k being
\* the k-th group from the right, so that the buffer read little-endian is
\* the number written; a string with another prefix raises.
C27_LittleEndian ==
    pc = "buffered" =>
        IF startsWith(data.chars, <<"0", "x">>)
        THEN thrown = None
             /\ Holds(ret, SubSeq(data.chars, 3, Len(data.chars)), 16, 2)
        ELSE IF startsWith(data.chars, <<"b">>)
        THEN thrown = None
             /\ Holds(ret, SubSeq(data.chars, 2, Len(data.chars)), 2, 8)
        ELSE ret = None /\ thrown # None

\* a hex string with a short leftmost group, a binary string of more than
\* eight bits, and a string with another prefix have been converted
C27_Witness ==
    /\ pc = "buffered"
    /\ \/ data.chars = <<"0", "x", "1", "a", "0">> /\ ret = <<160, 1>>
       \/ data.chars = <<"b", "1", "0", "0", "0", "0", "0", "0", "0", "1">> /\ ret = <<1, 1>>

(***************************************************************************)
(* Claims on $ref in the transcoder                                        *)
(***************************************************************************)
\* C23: for every node of the schema that has $ref, alone or next to other
\* keys, the node the transcoder goes on with is the node the transformer
\* obtains in its first step, both resolved from the root.
C23_SameResolution ==
    trail # <<>> =>
        (~falsy(schema) =>
            \A node \in Referring(schema) :
                refSchemaOf(node, schema) = resolveRef(node, schema))

\* the document given to the i-th call
given(i) == IF i = 1 THEN data ELSE trail[i - 1]

\* the properties entry of the name is a node with $ref and nothing else
\* that leads to a definition with a mongoType
OnlyRef(node) ==
    /\ DOMAIN node = {"$ref"}
    /\ walkRef(schema, node["$ref"]).found
    /\ Has(walkRef(schema, node["$ref"]).value, "mongoType")

\* C30: a leaf, under a name or in a list, whose schema node is only a $ref
\* to a definition with a mongoType is looked up with an undefined type and
\* is the same after a call in either direction, while a map below a name
\* whose node is a $ref is converted against the definition.
C30_LeafRefUnresolved ==
    \A i \in 1..Len(trail) :
        (IsObj(given(i)) /\ ~falsy(schema) /\ Has(schema, "properties")) =>
            \A k \in DOMAIN given(i).Object \cap DOMAIN schema.properties :
                LET node == schema.properties[k]
                    value == given(i).Object[k]
                IN  /\ (Scalar(value) /\ OnlyRef(node)) =>
                          /\ trail[i].Object[k] = value
                          /\ (i = Len(trail) /\ thrown = None) =>
                                \E j \in 1..Len(lookups) :
                                    /\ lookups[j].value = value
                                    /\ lookups[j].type = "undefined"
                    /\ (IsArr(value) /\ Has(node, "items") /\ IsObj(node.items)
                          /\ OnlyRef(node.items.Object)
                          /\ \A e \in 1..Len(value.Array) : Scalar(value.Array[e])) =>
                          trail[i].Object[k] = value
                    /\ (IsObj(value) /\ DOMAIN node = {"$ref"}
                          /\ refSchemaOf(node, schema) = IdSchema
                          /\ DOMAIN value.Object = {"id"}
                          /\ IsChars(value.Object.id) /\ i = 1) =>
                          "Decimal128" \in DOMAIN trail[i].Object[k].Object.id

\* a numeric string and a stored number under a name whose node is only a
\* $ref to the int128 definition went through a call
C30_Witness ==
    /\ schema = RefLeafSchema
    /\ Len(trail) >= 2
    /\ IsObj(data) /\ DOMAIN data.Object = {"id"}
    /\ trail[2] = data
    /\ lookups # <<>> /\ lookups[1].type = "undefined"

(***************************************************************************)
(* Claims on the construction and the initialization of a Collection       *)
(***************************************************************************)
\* the instance has the validation data of both modes
Constructed(i) ==
    /\ ~IsUndefined(instances[i].validationData)
    /\ DOMAIN instances[i].validationData = Modes

\* C28: every instance in Collection.collections is fully constructed; a
\* new Collection that raised left no instance under its name and no
\* listener of 'connected', so bindCollection runs for constructed instances
\* only and a later call with the name returns a constructed instance.
C28_FullyConstructed ==
    /\ \A name \in DOMAIN collections : Constructed(collections[name])
    /\ \A b \in 1..Len(binds) : Constructed(binds[b].instance)
    /\ \A i \in 1..Len(history) :
          (~IsThrow(history[i].result) /\ "instance" \in DOMAIN history[i].result) =>
              Constructed(history[i].result.instance)

\* C21: a promise of waitForInitializaton is resolved only at a moment when
\* no bindCollection call of the instance is on its way, whatever the order
\* of constructions, 'connected' events and waitForInitializaton calls.
C21_ResolvedWhenBound ==
    \A w \in 1..Len(waits) : waits[w].resolved => ~waits[w].binding

\* once a bindCollection call of the instance came to its end, every
\* promise of waitForInitializaton on the instance is resolved
C21_ResolvedOnceBound ==
    \A w \in 1..Len(waits) :
        instances[waits[w].instance].collectionBound => waits[w].resolved

(***************************************************************************)
(* connexion.js: connect and disconnect, each in two steps, the call up to *)
(* its await and the rest once the promise awaited is settled              *)
(***************************************************************************)
connexionFrame ==
    <<pc, schema, data, thrown, validationData, trail, lookups, toDbFunctions,
      fromDbFunctions, validator, invoked, ret, history, collections, instances,
      namespaces, binds, waits>>

InitConnexion ==
    /\ pc = "connexion"
    /\ NoCollections
    /\ history = <<>>
    /\ thrown = None
    /\ ret = None
    /\ schema = None
    /\ data = None
    /\ validationData = None
    /\ trail = <<>>
    /\ lookups = <<>>
    /\ toDbFunctions = builtinToDb
    /\ fromDbFunctions = builtinFromDb
    /\ validator = None
    /\ invoked = <<>>

\* the call c is at its await
awaiting(c, op) == calls[c].op = op /\ calls[c].pc = "await"

\* the call c goes on to pc
settled(c, to) == [calls EXCEPT ![c].pc = to]

\* lines 12-14: connect(url, options) up to `await client.connect()`
ConnectCalled ==
    /\ Len(calls) < MaxAsync
    /\ Len(clients) < MaxClients
    /\ clients' = Append(clients, "connecting")
    /\ client' = Len(clients) + 1
    /\ calls' = Append(calls, [op |-> "connect", client |-> Len(clients) + 1,
                               pc |-> "await"])
    /\ UNCHANGED <<connectionStatus, emits>>
    /\ UNCHANGED connexionFrame

\* lines 14-17: client.connect() resolved
ConnectResolved ==
    /\ \E c \in 1..Len(calls) :
          /\ awaiting(c, "connect")
          /\ clients[calls[c].client] = "connecting"
          /\ clients' = [clients EXCEPT ![calls[c].client] = "connected"]
          /\ calls' = settled(c, "returned")
    /\ connectionStatus' = "connected"
    /\ emits' = Append(emits, [event |-> "connected", status |-> connectionStatus'])
    /\ UNCHANGED client
    /\ UNCHANGED connexionFrame

\* line 14: client.connect() rejected, connect() rejects with it
ConnectRejected ==
    /\ \E c \in 1..Len(calls) :
          /\ awaiting(c, "connect")
          /\ clients' = [clients EXCEPT ![calls[c].client] =
                            IF @ = "connecting" THEN "failed" ELSE @]
          /\ calls' = settled(c, "rejected")
    /\ UNCHANGED <<client, connectionStatus, emits>>
    /\ UNCHANGED connexionFrame

\* line 21: disconnect() up to `await client.close()`; with client null
\* the call rejects with a TypeError
DisconnectCalled ==
    /\ Len(calls) < MaxAsync
    /\ calls' = Append(calls, [op |-> "disconnect", client |-> client,
                               pc |-> IF client = 0 THEN "rejected" ELSE "await"])
    /\ UNCHANGED <<client, clients, connectionStatus, emits>>
    /\ UNCHANGED connexionFrame

\* lines 21-24: client.close() resolved
DisconnectResolved ==
    /\ \E c \in 1..Len(calls) :
          /\ awaiting(c, "disconnect")
          /\ clients' = [clients EXCEPT ![calls[c].client] = "closed"]
          /\ calls' = settled(c, "returned")
    /\ connectionStatus' = "disconnected"
    /\ emits' = Append(emits, [event |-> "disconnected", status |-> connectionStatus'])
    /\ client' = 0
    /\ UNCHANGED connexionFrame

NextConnexion ==
    ConnectCalled \/ ConnectResolved \/ ConnectRejected \/ DisconnectCalled
    \/ DisconnectResolved

SpecConnexion == InitConnexion /\ [][NextConnexion]_vars

\* C29: in any order of connect() and disconnect() calls and of their
\* settlements, while getConnectionStatus() is 'connected' getClient() is a
\* client, not null, whose connect() resolved, and an event was emitted when
\* the status had the matching value.
C29_ConnectedClient ==
    /\ connectionStatus = "connected" => (client # 0 /\ clients[client] = "connected")
    /\ \A e \in 1..Len(emits) : emits[e].status = emits[e].event

\* the events alone: each was emitted with the status of its name
C29_EventsAfterStatus ==
    \A e \in 1..Len(emits) : emits[e].status = emits[e].event

====
